---- MODULE Spec2Model ----
(***************************************************************************)
(* A model of ninja's manifest parser (src/manifest_parser.cc).            *)
(*                                                                         *)
(* The parser is a recursive-descent driver: ManifestParser::Parse reads   *)
(* one statement after the other and hands it to a statement handler,      *)
(* which mutates the shared graph store (State).  The model keeps the      *)
(* store, the chain of scopes, the stack of parser instances created by    *)
(* include/subninja, and the process-wide working directory.               *)
(*                                                                         *)
(* Text is a sequence of atoms; "/" is an atom of its own, so that string  *)
(* concatenation is \o and a textual prefix is a prefix of the sequence.   *)
(* The input file is not fixed: each step reads the next statement out of  *)
(* a bounded set, so a behaviour of the model is the parse of one file     *)
(* (and of the files it includes).                                         *)
(***************************************************************************)
EXTENDS Integers, Sequences, FiniteSets, TLC

\* ------------------------------------------------------------------ bounds

\* The length of an input made of build statements, in tokens: one per
\* "build" keyword, path expression and indented binding.
MaxInput == 5

\* The number of statements of an input with include and subninja statements,
\* the statements of the included files counted in.
MaxStmts == 3

\* Nesting depth of include/subninja below the top-level file.
MaxDepth == 2

\* ------------------------------------------------------------------- text

EmptyStr == << >>

Slash == "/"

\* A function with an empty domain (an empty std::map).
EmptyMap == [k \in {} |-> EmptyStr]

MapPut(m, k, v) == [x \in (DOMAIN m) \cup {k} |-> IF x = k THEN v ELSE m[x]]

IsPrefix(p, s) == Len(p) <= Len(s) /\ SubSeq(s, 1, Len(p)) = p

Last(s) == s[Len(s)]

Front(s) == SubSeq(s, 1, Len(s) - 1)

\* The components of a path, split at "/" (empty components dropped).
RECURSIVE SplitPath(_, _, _)
SplitPath(p, cur, acc) ==
    IF p = << >> THEN (IF cur = << >> THEN acc ELSE Append(acc, cur))
    ELSE IF Head(p) = Slash
         THEN SplitPath(Tail(p), << >>, IF cur = << >> THEN acc ELSE Append(acc, cur))
         ELSE SplitPath(Tail(p), Append(cur, Head(p)), acc)

\* "." is dropped, ".." cancels the component before it (if there is one).
RECURSIVE FoldComponents(_, _)
FoldComponents(cs, acc) ==
    IF cs = << >> THEN acc
    ELSE IF Head(cs) = <<".">> THEN FoldComponents(Tail(cs), acc)
    ELSE IF Head(cs) = <<"..">> /\ acc # << >> /\ Last(acc) # <<"..">>
         THEN FoldComponents(Tail(cs), Front(acc))
         ELSE FoldComponents(Tail(cs), Append(acc, Head(cs)))

RECURSIVE JoinPath(_)
JoinPath(cs) ==
    IF cs = << >> THEN << >>
    ELSE IF Len(cs) = 1 THEN Head(cs)
    ELSE Head(cs) \o <<Slash>> \o JoinPath(Tail(cs))

\* CanonicalizePath: fails on the empty path, else normalizes in place.
CanonicalizePath(p) ==
    IF p = << >> THEN [ok |-> FALSE, path |-> p]
    ELSE LET cs == FoldComponents(SplitPath(p, << >>, << >>), << >>)
         IN  [ok |-> TRUE, path |-> IF cs = << >> THEN <<".">> ELSE JoinPath(cs)]

\* ---------------------------------------------------------------- options

\* ManifestParserOptions: the two policies.  kPhonyCycleActionError is the
\* policy that leaves a self-reference in place.
DupeEdgeActions == {"kDupeEdgeActionWarn", "kDupeEdgeActionError"}

PhonyCycleActions == {"kPhonyCycleActionWarn", "kPhonyCycleActionError"}

VARIABLES
    dupe_edge_action_,   \* options_.dupe_edge_action_
    phony_cycle_action_, \* options_.phony_cycle_action_
    edges_,              \* state_->edges_
    paths_,              \* state_->paths_: canonical path -> Node
    pools_,              \* state_->pools_: name -> depth
    scopes,              \* every BindingEnv allocated so far; env pointers index it
    stack,               \* the parser instances: top-level first, innermost last
    cwd,                 \* the process's working directory
    err,                 \* *err, shared by every parser instance
    used,                \* units of input read so far
    next_edge,           \* the number of Edge objects allocated so far
    last,                \* the statement handled by the latest step, and its outcome
    dirlog               \* every FileReader::Chdir call so far

vars == << dupe_edge_action_, phony_cycle_action_, edges_, paths_, pools_, scopes,
           stack, cwd, err, used, next_edge, last, dirlog >>

\* ----------------------------------------------------------------- scopes

\* An EvalString is a sequence of fragments: literal text or a variable name.
Raw(text) == [type |-> "RAW", text |-> text, var |-> ""]

Special(name) == [type |-> "SPECIAL", text |-> EmptyStr, var |-> name]

NullEnv == 0

RootEnv == 1

\* The built-in rule every State starts with.
kPhonyRule == [name |-> "phony", bindings |-> EmptyMap]

\* BindingEnv(parent, rel_path, abs_path).
BindingEnv(parent, rel, abs) ==
    [parent |-> parent, bindings |-> EmptyMap, rules |-> EmptyMap,
     rel_path |-> rel, abs_path |-> abs]

\* BindingEnv::LookupVariable: own bindings, then the parents', else "".
RECURSIVE LookupVariable(_, _, _)
LookupVariable(sc, env, var) ==
    IF env = NullEnv THEN EmptyStr
    ELSE IF var \in DOMAIN sc[env].bindings THEN sc[env].bindings[var]
    ELSE LookupVariable(sc, sc[env].parent, var)

\* BindingEnv::LookupRuleCurrentScope.
HasRuleCurrentScope(sc, env, name) == name \in DOMAIN sc[env].rules

\* BindingEnv::LookupRule: through the parent chain; env 0 when not found.
RECURSIVE RuleScope(_, _, _)
RuleScope(sc, env, name) ==
    IF env = NullEnv THEN NullEnv
    ELSE IF name \in DOMAIN sc[env].rules THEN env
    ELSE RuleScope(sc, sc[env].parent, name)

\* BindingEnv::AddBinding.
AddBinding(sc, env, key, val) ==
    [sc EXCEPT ![env].bindings = MapPut(@, key, val)]

\* BindingEnv::AddRule.
AddRule(sc, env, rule) ==
    [sc EXCEPT ![env].rules = MapPut(@, rule.name, rule)]

\* BindingEnv::AsString: the absolute directory prefix of the scope.
AsString(sc, env) == sc[env].abs_path

\* BindingEnv::ApplyChdir: qualify a path with the scope's directory.
ApplyChdir(sc, env, path) == AsString(sc, env) \o path

\* EvalString::Evaluate against a BindingEnv.
RECURSIVE Evaluate(_, _, _)
Evaluate(es, sc, env) ==
    IF es = << >> THEN EmptyStr
    ELSE (IF Head(es).type = "RAW" THEN Head(es).text
          ELSE LookupVariable(sc, env, Head(es).var))
         \o Evaluate(Tail(es), sc, env)

\* EdgeEnv::LookupVariable / BindingEnv::LookupWithFallback: the edge scope's
\* own bindings, then the rule's binding (evaluated in the edge's environment),
\* then the parents of the edge scope.
RECURSIVE EdgeLookup(_, _, _)
RECURSIVE EdgeEvaluate(_, _, _)
EdgeLookup(sc, e, var) ==
    IF var \in DOMAIN sc[e.env_].bindings THEN sc[e.env_].bindings[var]
    ELSE IF var \in DOMAIN e.rule_.bindings
         THEN EdgeEvaluate(e.rule_.bindings[var], sc, e)
         ELSE LookupVariable(sc, sc[e.env_].parent, var)

EdgeEvaluate(es, sc, e) ==
    IF es = << >> THEN EmptyStr
    ELSE (IF Head(es).type = "RAW" THEN Head(es).text
          ELSE EdgeLookup(sc, e, Head(es).var))
         \o EdgeEvaluate(Tail(es), sc, e)

\* Edge::GetBinding and Edge::GetUnescapedDyndep.
GetBinding(sc, e, key) == EdgeLookup(sc, e, key)

\* ------------------------------------------------------------ graph store

NoEdge == 0

DefaultPool == EmptyStr

\* A Node as State::GetNode creates it.
NewNode(env) ==
    [in_edge |-> NoEdge, out_edges |-> << >>, dyndep_pending |-> FALSE, env |-> env]

\* State::GetNode: the node of a path, interned on first use.
GetNode(paths, path, env) ==
    IF path \in DOMAIN paths THEN paths ELSE MapPut(paths, path, NewNode(env))

\* State::AddEdge: a fresh edge with the default pool and no nodes.
NewEdge(id, rule, env) ==
    [id |-> id, rule_ |-> rule, env_ |-> env, pool_ |-> DefaultPool,
     outputs_ |-> << >>, inputs_ |-> << >>, implicit_outs_ |-> 0,
     implicit_deps_ |-> 0, order_only_deps_ |-> 0, dyndep_ |-> EmptyStr]

\* The message of an error: lexer_.Error(msg, err) stores it in *err.
Msg(m, arg) == [msg |-> m, arg |-> arg]

NoErr == Msg("", EmptyStr)

\* ---------------------------------------------------- build statement: read

\* Where the lexer rejects a build statement, if anywhere: the path reads of
\* the five lists, the ':' , the rule name, the end of line, an indented line.
BadPositions ==
    {"none", "out", "implicit_out", "colon", "rule", "in", "implicit_in",
     "order_only_in", "newline", "let"}

\* Lexer::Error of a read that failed inside the lexer.
LexError == Msg("lexing error", EmptyStr)

\* The outcome of a handler: its return value and the store it leaves.
Outcome(ret, e, ed, pa, sc, ne, made) ==
    [ret |-> ret, err |-> e, edges |-> ed, paths |-> pa, scopes |-> sc,
     next_edge |-> ne, made |-> made]

\* A return that leaves an edge without nodes in the edge list.
ReturnEdgeAdded(ret, e) ==
    Outcome(ret, e,
            Append(edges_, [id |-> next_edge + 1, rule_ |-> kPhonyRule, env_ |-> RootEnv,
                            pool_ |-> EmptyStr, outputs_ |-> << >>, inputs_ |-> << >>,
                            implicit_outs_ |-> 0, implicit_deps_ |-> 0,
                            order_only_deps_ |-> 0, dyndep_ |-> EmptyStr]),
            paths_, scopes, next_edge + 1, NoEdge)

\* A return before the statement touched the store.
Return(ret, e) == Outcome(ret, e, edges_, paths_, scopes, next_edge, NoEdge)

\* Line 232: a failed read of an implicit output ends the handler by
\* "return err", and err, a non-null string*, converts to true.
ImplicitOutReadFailed == Return(TRUE, LexError)

\* Line 270: the same for a failed read of an implicit input.
ImplicitInReadFailed == Return(TRUE, LexError)

\* Indented bindings whose values are evaluated against the scope of the
\* edge, which holds the bindings above them.
RECURSIVE AddLetsEdgeScope(_, _, _, _)
AddLetsEdgeScope(sc, env, env_, lets) ==
    IF lets = << >> THEN sc
    ELSE AddLetsEdgeScope(AddBinding(sc, env, Head(lets).key, Evaluate(Head(lets).val, sc, env)),
                          env, env_, Tail(lets))

\* Lines 295-306: the indented bindings go to a scope of the edge's own,
\* allocated only when there is an indented line; each value is evaluated
\* against the enclosing scope env_.
RECURSIVE AddLets(_, _, _, _)
AddLets(sc, env, env_, lets) ==
    IF lets = << >> THEN sc
    ELSE AddLets(AddBinding(sc, env, Head(lets).key, Evaluate(Head(lets).val, sc, env_)),
                 env, env_, Tail(lets))

EdgeScopes(st, env_) ==
    IF st.lets # << >> \/ st.bad = "let"
    THEN AddLets(Append(scopes, BindingEnv(env_, EmptyStr, AsString(scopes, env_))),
                 Len(scopes) + 1, env_, st.lets)
    ELSE scopes

EdgeEnvOf(st, env_) ==
    IF st.lets # << >> \/ st.bad = "let" THEN Len(scopes) + 1 ELSE env_

\* --------------------------------------------------- build statement: link

\* State::AddOut: false when the path already has a producing edge, else
\* the node becomes an output of the edge and the edge its producer.
AddOut(pa, sc, e, path) ==
    LET key == ApplyChdir(sc, e.env_, path)
        p1  == GetNode(pa, key, e.env_)
    IN  IF p1[key].in_edge # NoEdge
        THEN [ok |-> FALSE, paths |-> p1, edge |-> e]
        ELSE [ok |-> TRUE,
              paths |-> [p1 EXCEPT ![key].in_edge = e.id],
              edge |-> [e EXCEPT !.outputs_ = Append(@, key)]]

\* State::AddIn: the node becomes an input of the edge, the edge a consumer.
AddIn(pa, sc, e, path) ==
    LET key == ApplyChdir(sc, e.env_, path)
        p1  == GetNode(pa, key, e.env_)
    IN  [paths |-> [p1 EXCEPT ![key].out_edges = Append(@, e.id)],
         edge |-> [e EXCEPT !.inputs_ = Append(@, key)]]

\* A drop that forgets the count: the count of implicit outputs stays what
\* the statement declared.
DropCountKept(e_, i, implicit_outs) == implicit_outs

\* Lines 338-339: dropping output i (0-based) of e outputs lowers the count
\* of implicit outputs when it lies in the implicit block at the end.
DropCount(e_, i, implicit_outs) ==
    IF e_ - i <= implicit_outs THEN implicit_outs - 1 ELSE implicit_outs

\* A refusal that never stops the statement: the output is dropped under
\* either policy.
OnDupeAlwaysDrops(e, path, e_, i, implicit_outs) ==
    [ok |-> TRUE, err |-> NoErr, edge |-> e,
     implicit_outs |-> DropCount(e_, i, implicit_outs)]

\* A refusal that leaves the refused output in the edge's output list.
OnDupeKeepsOutput(e, path, e_, i, implicit_outs) ==
    IF dupe_edge_action_ = "kDupeEdgeActionError"
    THEN [ok |-> FALSE, err |-> Msg("multiple rules generate", path), edge |-> e,
          implicit_outs |-> implicit_outs]
    ELSE [ok |-> TRUE, err |-> NoErr, edge |-> [e EXCEPT !.outputs_ = Append(@, path)],
          implicit_outs |-> implicit_outs]

\* Lines 327-340: output i (0-based) of e_ was refused by AddOut.  Under the
\* error policy the statement fails; under the warn policy the output is
\* left out of the edge and the count of implicit outputs follows.
OnDupe(e, path, e_, i, implicit_outs) ==
    IF dupe_edge_action_ = "kDupeEdgeActionError"
    THEN [ok |-> FALSE, err |-> Msg("multiple rules generate", path), edge |-> e,
          implicit_outs |-> implicit_outs]
    ELSE [ok |-> TRUE, err |-> NoErr, edge |-> e,
          implicit_outs |-> DropCount(e_, i, implicit_outs)]

\* Lines 319-342: the outputs, in order.  i is the 0-based index of line 320.
RECURSIVE AddOutputs(_, _, _, _, _, _)
AddOutputs(pa, sc, e, outs, i, implicit_outs) ==
    IF i = Len(outs)
    THEN [ok |-> TRUE, err |-> NoErr, paths |-> pa, edge |-> e,
          implicit_outs |-> implicit_outs]
    ELSE LET c == CanonicalizePath(Evaluate(outs[i + 1], sc, e.env_))
             r == AddOut(pa, sc, e, c.path)
             d == OnDupe(r.edge, c.path, Len(outs), i, implicit_outs)
         IN  IF ~c.ok
             THEN [ok |-> FALSE, err |-> Msg("empty path", EmptyStr), paths |-> pa,
                   edge |-> e, implicit_outs |-> implicit_outs]
             ELSE IF r.ok
             THEN AddOutputs(r.paths, sc, r.edge, outs, i + 1, implicit_outs)
             ELSE IF ~d.ok
             THEN [ok |-> FALSE, err |-> d.err, paths |-> r.paths, edge |-> d.edge,
                   implicit_outs |-> d.implicit_outs]
             ELSE AddOutputs(r.paths, sc, d.edge, outs, i + 1, d.implicit_outs)

\* Lines 352-360: the inputs, in order.
RECURSIVE AddInputs(_, _, _, _)
AddInputs(pa, sc, e, ins) ==
    IF ins = << >> THEN [ok |-> TRUE, err |-> NoErr, paths |-> pa, edge |-> e]
    ELSE LET c == CanonicalizePath(Evaluate(Head(ins), sc, e.env_))
             r == AddIn(pa, sc, e, c.path)
         IN  IF ~c.ok
             THEN [ok |-> FALSE, err |-> Msg("empty path", EmptyStr), paths |-> pa,
                   edge |-> e]
             ELSE AddInputs(r.paths, sc, r.edge, Tail(ins))

\* Lines 361-362: the counts of the implicit and the order-only block.
SetDepCounts(e, implicit, order_only) ==
    [e EXCEPT !.implicit_deps_ = implicit, !.order_only_deps_ = order_only]

\* Edge::maybe_phonycycle_diagnostic: the edge has a single output.
maybe_phonycycle_diagnostic(e) == Len(e.outputs_) = 1

\* std::remove(first, last, value): every element equal to value is removed.
RECURSIVE Remove(_, _)
Remove(s, v) ==
    IF s = << >> THEN << >>
    ELSE IF Head(s) = v THEN Remove(Tail(s), v)
    ELSE <<Head(s)>> \o Remove(Tail(s), v)

\* A filter that looks at the explicit inputs only.
PhonyCycleFilterExplicit(e) ==
    IF phony_cycle_action_ = "kPhonyCycleActionWarn" /\ maybe_phonycycle_diagnostic(e)
    THEN LET n == Len(e.inputs_) - e.implicit_deps_ - e.order_only_deps_
         IN  [e EXCEPT !.inputs_ = Remove(SubSeq(@, 1, n), e.outputs_[1])
                                      \o SubSeq(@, n + 1, Len(@))]
    ELSE e

\* Lines 364-381: under the warn policy an edge that may be a phony cycle
\* loses every input that is its own output.
PhonyCycleFilter(e) ==
    IF phony_cycle_action_ = "kPhonyCycleActionWarn" /\ maybe_phonycycle_diagnostic(e)
    THEN [e EXCEPT !.inputs_ = Remove(@, e.outputs_[1])]
    ELSE e

\* A depslog check that lets two outputs through.
DepslogConflictAboveTwo(sc, e) ==
    GetBinding(sc, e, "deps") # EmptyStr /\ Len(e.outputs_) > 2

\* Lines 383-389: a deps binding and more than one output do not go together.
DepslogConflict(sc, e) ==
    GetBinding(sc, e, "deps") # EmptyStr /\ Len(e.outputs_) > 1

\* A dyndep binding that is stored without looking for it among the inputs.
DyndepUnchecked(pa, sc, e) ==
    LET dyndep == GetBinding(sc, e, "dyndep")
        c   == CanonicalizePath(ApplyChdir(sc, e.env_, dyndep))
        p1  == GetNode(pa, c.path, e.env_)
    IN  IF dyndep = EmptyStr
        THEN [ok |-> TRUE, err |-> NoErr, paths |-> pa, edge |-> e]
        ELSE IF ~c.ok
        THEN [ok |-> FALSE, err |-> Msg("empty path", EmptyStr), paths |-> pa, edge |-> e]
        ELSE [ok |-> TRUE, err |-> NoErr,
              paths |-> [p1 EXCEPT ![c.path].dyndep_pending = TRUE],
              edge |-> [e EXCEPT !.dyndep_ = c.path]]

\* Lines 391-407: the dyndep binding names a node, which is interned, flagged
\* and stored in the edge, and must be one of the edge's inputs.
Dyndep(pa, sc, e) ==
    LET dyndep == GetBinding(sc, e, "dyndep")
        c   == CanonicalizePath(ApplyChdir(sc, e.env_, dyndep))
        p1  == GetNode(pa, c.path, e.env_)
        p2  == [p1 EXCEPT ![c.path].dyndep_pending = TRUE]
        e1  == [e EXCEPT !.dyndep_ = c.path]
    IN  IF dyndep = EmptyStr
        THEN [ok |-> TRUE, err |-> NoErr, paths |-> pa, edge |-> e]
        ELSE IF ~c.ok
        THEN [ok |-> FALSE, err |-> Msg("empty path", EmptyStr), paths |-> pa, edge |-> e]
        ELSE IF \E k \in 1..Len(e1.inputs_) : e1.inputs_[k] = e1.dyndep_
        THEN [ok |-> TRUE, err |-> NoErr, paths |-> p2, edge |-> e1]
        ELSE [ok |-> FALSE, err |-> Msg("dyndep is not an input", c.path),
              paths |-> p2, edge |-> e1]

\* What a build statement leaves when it ends after its edge was created:
\* the edge is in the edge list, except when it was discarded.
Linked(ret, e, sc, pa, edge) ==
    Outcome(ret, e, Append(edges_, edge), pa, sc, edge.id, edge.id)

\* Lines 391-409: the statement ends with the outcome d of the dyndep check.
EdgeDyndep(sc, d) ==
    IF d.ok THEN Linked(TRUE, err, sc, d.paths, d.edge)
    ELSE Linked(FALSE, d.err, sc, d.paths, d.edge)

\* Lines 383-389: the depslog check of the edge e with its inputs linked.
EdgeDeps(sc, pa, e) ==
    IF DepslogConflict(sc, e)
    THEN Linked(FALSE, Msg("multiple outputs aren't (yet?) supported by depslog", EmptyStr),
                sc, pa, e)
    ELSE EdgeDyndep(sc, Dyndep(pa, sc, e))

\* Lines 352-381: i is the outcome of linking the inputs.
EdgeInputs(st, sc, i) ==
    IF ~i.ok THEN Linked(FALSE, i.err, sc, i.paths, i.edge)
    ELSE EdgeDeps(sc, i.paths,
                  PhonyCycleFilter(SetDepCounts(i.edge, st.implicit, st.order_only)))

\* An edge that is linked whether or not it kept an output.
EdgeKeptAlways(st, sc, o) ==
    EdgeInputs(st, sc,
               AddInputs(o.paths, sc,
                         [o.edge EXCEPT !.implicit_outs_ = o.implicit_outs], st.ins))

\* Lines 343-350: an edge that kept no output is popped off the edge list and
\* deleted, and the statement succeeds.
EdgeKept(st, sc, o) ==
    IF o.edge.outputs_ = << >>
    THEN Outcome(TRUE, err, edges_, o.paths, sc, o.edge.id, o.edge.id)
    ELSE EdgeInputs(st, sc,
                    AddInputs(o.paths, sc,
                              [o.edge EXCEPT !.implicit_outs_ = o.implicit_outs], st.ins))

\* Lines 319-342: o is the outcome of linking the outputs.
EdgeOutputs(st, sc, o) ==
    IF ~o.ok THEN Linked(FALSE, o.err, sc, o.paths, o.edge)
    ELSE EdgeKept(st, sc, o)

\* A pool binding that may name a pool nobody declared: the edge stays in the
\* default pool.
EdgePoolLenient(st, sc, e, pool_name) ==
    IF pool_name = EmptyStr \/ pool_name \notin DOMAIN pools_
    THEN EdgeOutputs(st, sc, AddOutputs(paths_, sc, e, st.outs, 0, st.implicit_outs))
    ELSE EdgeOutputs(st, sc, AddOutputs(paths_, sc, [e EXCEPT !.pool_ = pool_name],
                                        st.outs, 0, st.implicit_outs))

\* Lines 311-317: the pool binding of the new edge e, if there is one, names
\* a pool of the pool table.
EdgePool(st, sc, e, pool_name) ==
    IF pool_name = EmptyStr
    THEN EdgeOutputs(st, sc, AddOutputs(paths_, sc, e, st.outs, 0, st.implicit_outs))
    ELSE IF pool_name \notin DOMAIN pools_
    THEN Linked(FALSE, Msg("unknown pool name", pool_name), sc, paths_, e)
    ELSE EdgeOutputs(st, sc, AddOutputs(paths_, sc, [e EXCEPT !.pool_ = pool_name],
                                        st.outs, 0, st.implicit_outs))

\* Lines 308-409: the edge is created and linked into the store.
LinkEdge(st, sc, e) == EdgePool(st, sc, e, GetBinding(sc, e, "pool"))

\* ManifestParser::ParseEdge, for the statement st read in the scope env_.
ParseEdge(st, env_) ==
    LET rs == RuleScope(scopes, env_, st.rule)
    IN  IF st.bad = "out" THEN Return(FALSE, LexError)
        ELSE IF st.bad = "implicit_out" THEN ImplicitOutReadFailed
        ELSE IF st.outs = << >> THEN Return(FALSE, Msg("expected path", EmptyStr))
        ELSE IF st.bad = "colon" THEN Return(FALSE, Msg("expected ':'", EmptyStr))
        ELSE IF st.bad = "rule"
        THEN Return(FALSE, Msg("expected build command name", EmptyStr))
        ELSE IF rs = NullEnv
        THEN Return(FALSE, Msg("unknown build rule", <<st.rule>>))
        ELSE IF st.bad = "in" THEN Return(FALSE, LexError)
        ELSE IF st.bad = "implicit_in" THEN ImplicitInReadFailed
        ELSE IF st.bad = "order_only_in" THEN Return(FALSE, LexError)
        ELSE IF st.bad = "newline" THEN Return(FALSE, Msg("expected newline", EmptyStr))
        ELSE IF st.bad = "let"
        THEN Outcome(FALSE, LexError, edges_, paths_, EdgeScopes(st, env_),
                     next_edge, NoEdge)
        ELSE LinkEdge(st, EdgeScopes(st, env_),
                      NewEdge(next_edge + 1, scopes[rs].rules[st.rule], EdgeEnvOf(st, env_)))

\* ------------------------------------------------------------- the input

A == <<"a">>

B == <<"b">>

DotA == <<".", Slash, "a">>

\* Path expressions of the input: two literals and a variable reference.
PathExprs == { <<Raw(A)>>, <<Raw(B)>>, <<Special("x")>> }

\* Indented bindings of the input, in the order an edge lists them.
Lets ==
    << [key |-> "deps",   val |-> <<Raw(<<"gcc">>)>>],
       [key |-> "dyndep", val |-> <<Raw(A)>>],
       [key |-> "pool",   val |-> <<Raw(<<"nopool">>)>>],
       [key |-> "x",      val |-> <<Raw(DotA)>>] >>

RuleNames == {"phony", "cat"}

\* The longest list of one build statement: what MaxInput leaves room for.
MaxList == MaxInput - 1

SeqsUpTo(S, n) == UNION { [1..k -> S] : k \in 0..n }

BuildStmt(bad, outs, io, rule, ins, im, oo, lets) ==
    [kind |-> "build", bad |-> bad, outs |-> outs, implicit_outs |-> io,
     rule |-> rule, ins |-> ins, implicit |-> im, order_only |-> oo, lets |-> lets]

\* The tokens of a build statement.
Cost(st) ==
    1 + Len(st.outs) + Len(st.ins) + Len(st.lets)

\* The splits of n inputs: how many are implicit, how many order-only.
Splits(n) == { d \in (0..n) \X (0..n) : d[1] + d[2] <= n }

\* The bindings of Lets with an index in S, in order.
RECURSIVE SubLets(_, _)
SubLets(S, i) ==
    IF i > Len(Lets) THEN << >>
    ELSE (IF i \in S THEN <<Lets[i]>> ELSE << >>) \o SubLets(S, i + 1)

\* The lists of at most n path expressions, and of at most n bindings.
PathLists == [n \in 0..MaxList |-> SeqsUpTo(PathExprs, n)]

LetLists ==
    [n \in 0..MaxList |->
        { SubLets(S, 1) : S \in { T \in SUBSET (1..Len(Lets)) : Cardinality(T) <= n } }]

\* Build statements the lexer rejects at one of its positions, one that
\* names a rule nobody declared, one without an output, and one whose second
\* indented line the lexer rejects.
BadBuildStmts ==
    { BuildStmt(bad, <<<<Raw(A)>>>>, 0, "phony", << >>, 0, 0, << >>) :
        bad \in BadPositions \ {"none"} }
    \cup { BuildStmt("none", <<<<Raw(A)>>>>, 0, "cat", << >>, 0, 0, << >>),
           BuildStmt("none", << >>, 0, "phony", << >>, 0, 0, << >>),
           BuildStmt("let", <<<<Raw(A)>>>>, 0, "phony", << >>, 0, 0, <<Lets[4]>>) }

\* The path of a file in the directory of the chdir lines.
SubA == <<"sub", Slash, "a">>

\* The build statements of an input that is about its include and subninja
\* statements: one that links an edge, three with a dyndep binding (naming
\* an input, naming no input, naming the edge's own output), one the lexer
\* rejects with each outcome, one with an unknown rule, one whose output is
\* in the directory of the chdir lines.
SmallBuildStmts ==
    { BuildStmt("none", <<<<Raw(A)>>>>, 0, "phony", << >>, 0, 0, << >>),
      BuildStmt("none", <<<<Raw(B)>>>>, 0, "phony", <<<<Raw(A)>>>>, 0, 0,
                <<[key |-> "dyndep", val |-> <<Raw(A)>>]>>),
      BuildStmt("none", <<<<Raw(B)>>>>, 0, "phony", << >>, 0, 0,
                <<[key |-> "dyndep", val |-> <<Raw(A)>>]>>),
      BuildStmt("none", <<<<Raw(A)>>>>, 0, "phony", <<<<Raw(A)>>>>, 0, 0,
                <<[key |-> "dyndep", val |-> <<Raw(A)>>]>>),
      BuildStmt("out", <<<<Raw(A)>>>>, 0, "phony", << >>, 0, 0, << >>),
      BuildStmt("implicit_out", <<<<Raw(A)>>>>, 0, "phony", << >>, 0, 0, << >>),
      BuildStmt("none", <<<<Raw(A)>>>>, 0, "cat", << >>, 0, 0, << >>),
      BuildStmt("none", <<<<Raw(SubA)>>>>, 0, "phony", << >>, 0, 0, << >>) }

\* ------------------------------------------------- include and subninja

\* FileReader::Chdir(dir), when it succeeds: an absolute dir replaces the
\* working directory, a relative one is appended to it.
ChdirTo(wd, dir) ==
    IF dir # << >> /\ Head(dir) = Slash THEN dir ELSE wd \o dir \o <<Slash>>

\* One call of FileReader::Chdir, as dirlog records it.
ChdirCall(op, dir, ok, prev) == [op |-> op, dir |-> dir, ok |-> ok, prev |-> prev]

\* The locals of ParseFileInclude that its loop over the indented lines sets.
Locals(ok, returned, has_chdir, prev_cwd, rel_path, wd, log, e) ==
    [ok |-> ok, returned |-> returned, has_chdir |-> has_chdir, prev_cwd |-> prev_cwd,
     rel_path |-> rel_path, cwd |-> wd, log |-> log, err |-> e]

\* Indented lines of which every key is taken for chdir.
IllegalKeyNever(line) == FALSE

\* Line 434: the only key of an indented line is chdir.
IllegalKey(line) == line.key # "chdir"

\* Lines 427-465: the indented lines.  A rejected line ends the loop with
\* ok = false; a failed Getcwd or Chdir returns false on the spot.
RECURSIVE IncludeLines(_, _, _, _)
IncludeLines(st, env_, lines, l) ==
    IF lines = << >> THEN l
    ELSE LET line == Head(lines)
             rel  == Evaluate(line.val, scopes, env_)
         IN  IF line.bad
             THEN [l EXCEPT !.ok = FALSE, !.err = LexError]
             ELSE IF IllegalKey(line)
             THEN [l EXCEPT !.ok = FALSE, !.err = Msg("illegal key", <<line.key>>)]
             ELSE IF st.kind # "subninja"
             THEN [l EXCEPT !.ok = FALSE,
                            !.err = Msg("invalid use of 'chdir' in include line", EmptyStr)]
             ELSE IF l.has_chdir
             THEN [l EXCEPT !.ok = FALSE,
                            !.err = Msg("duplicate 'chdir' in subninja", EmptyStr)]
             ELSE IF ~st.getcwd_ok
             THEN [l EXCEPT !.ok = FALSE, !.returned = TRUE,
                            !.err = Msg("Getcwd", EmptyStr)]
             ELSE IF ~st.chdir_ok
             THEN [l EXCEPT !.ok = FALSE, !.returned = TRUE,
                            !.prev_cwd = l.cwd,
                            !.log = Append(@, ChdirCall("in", rel, FALSE, l.cwd)),
                            !.err = Msg("Chdir to", rel)]
             ELSE IncludeLines(st, env_, Tail(lines),
                    [l EXCEPT !.has_chdir = TRUE, !.prev_cwd = l.cwd,
                              !.rel_path = rel \o <<Slash>>,
                              !.cwd = ChdirTo(l.cwd, rel),
                              !.log = Append(@, ChdirCall("in", rel, TRUE, l.cwd))])

\* A restore that is left out when the nested parse failed.
RestoreCwdOnSuccess(has_chdir, prev_cwd, ok, restore_ok, wd, log, e) ==
    IF has_chdir /\ ok
    THEN [ok  |-> restore_ok,
          cwd |-> IF restore_ok THEN ChdirTo(wd, prev_cwd) ELSE wd,
          log |-> Append(log, ChdirCall("restore", prev_cwd, restore_ok, prev_cwd)),
          err |-> IF ~restore_ok THEN Msg("restore cwd", prev_cwd) ELSE e]
    ELSE [ok |-> ok, cwd |-> wd, log |-> log, err |-> e]

\* Lines 498-508: the working directory is restored when it was switched; a
\* failure of the restore is reported only when nothing failed before.
RestoreCwd(has_chdir, prev_cwd, ok, restore_ok, wd, log, e) ==
    IF has_chdir
    THEN [ok  |-> ok /\ restore_ok,
          cwd |-> IF restore_ok THEN ChdirTo(wd, prev_cwd) ELSE wd,
          log |-> Append(log, ChdirCall("restore", prev_cwd, restore_ok, prev_cwd)),
          err |-> IF ok /\ ~restore_ok THEN Msg("restore cwd", prev_cwd) ELSE e]
    ELSE [ok |-> ok, cwd |-> wd, log |-> log, err |-> e]

\* A re-homing that takes every node.
ResetEnvsAll(pa, abs_path, env) == [k \in DOMAIN pa |-> [pa[k] EXCEPT !.env = env]]

\* Lines 481-487: every interned node whose path starts with the new scope's
\* directory gets the new scope as its env.
ResetEnvs(pa, abs_path, env) ==
    [k \in DOMAIN pa |-> IF IsPrefix(abs_path, k) THEN [pa[k] EXCEPT !.env = env] ELSE pa[k]]

\* Lines 468-491: the scope of the nested parser.
SubparserScopes(new_scope, env_, rel_path) ==
    IF new_scope
    THEN LET sc == Append(scopes, BindingEnv(env_, rel_path, AsString(scopes, env_) \o rel_path))
         IN  IF rel_path # EmptyStr THEN AddRule(sc, Len(sc), kPhonyRule) ELSE sc
    ELSE scopes

\* A nested parser that always shares the scope of its includer.
SubparserEnvShared(new_scope, env_) == env_

SubparserEnv(new_scope, env_) == IF new_scope THEN Len(scopes) + 1 ELSE env_

SubparserPaths(new_scope, env_, rel_path) ==
    IF new_scope /\ rel_path # EmptyStr
    THEN ResetEnvs(paths_, AsString(scopes, env_) \o rel_path, Len(scopes) + 1)
    ELSE paths_

IncludeLine(key, bad) == [key |-> key, val |-> <<Raw(<<"sub">>)>>, bad |-> bad]

IncludeLineKinds == { IncludeLine("chdir", FALSE), IncludeLine("foo", FALSE), IncludeLine("chdir", TRUE) }

\* The longest run of indented lines below an include or subninja.
MaxIndent == 2

IncludeStmt(kind, bad, lines, getcwd_ok, chdir_ok, load_ok, restore_ok) ==
    [kind |-> kind, bad |-> bad, lines |-> lines, getcwd_ok |-> getcwd_ok,
     chdir_ok |-> chdir_ok, load_ok |-> load_ok, restore_ok |-> restore_ok]

\* Whether the statement gets as far as asking for the working directory,
\* switching it, loading the file, restoring without having loaded.
AsksCwd(st) ==
    st.bad = "none" /\ st.kind = "subninja" /\ st.lines # << >>
    /\ st.lines[1] = IncludeLine("chdir", FALSE)

Switches(st) == AsksCwd(st) /\ st.getcwd_ok /\ st.chdir_ok

Loads(st) ==
    st.bad = "none" /\ (st.lines = << >> \/ (Switches(st) /\ Len(st.lines) = 1))

\* The outcomes of the file reader are part of the input; one that the
\* statement never asks for is fixed to success.
Relevant(st) ==
    /\ (~AsksCwd(st) => st.getcwd_ok)
    /\ (~(AsksCwd(st) /\ st.getcwd_ok) => st.chdir_ok)
    /\ (~Loads(st) => st.load_ok)
    /\ (~(Switches(st) /\ (~Loads(st) \/ ~st.load_ok)) => st.restore_ok)
    /\ (st.bad # "none" => st.lines = << >>)
    /\ (~Switches(st) => Len(st.lines) <= 1)

IncludeStmts ==
    { st \in { IncludeStmt(kind, bad, lines, g, c, l, r) :
                 kind \in {"include", "subninja"}, bad \in {"none", "path", "newline"},
                 lines \in SeqsUpTo(IncludeLineKinds, MaxIndent),
                 g \in BOOLEAN, c \in BOOLEAN, l \in BOOLEAN, r \in BOOLEAN } :
        Relevant(st) }

\* ------------------------------------------------------------ the parser

Frame(env_, has_chdir, prev_cwd) ==
    [env_ |-> env_, pc |-> "parse", has_chdir |-> has_chdir, prev_cwd |-> prev_cwd]

Top == stack[Len(stack)]

Parsing == stack # << >> /\ Top.pc = "parse"

\* Parse leaves its loop: "ok" for return true, "fail" for return false.
Returned(ret) == [stack EXCEPT ![Len(stack)].pc = IF ret THEN "ok" ELSE "fail"]

Init ==
    /\ dupe_edge_action_ \in DupeEdgeActions
    /\ phony_cycle_action_ \in PhonyCycleActions
    /\ edges_ = << >>
    /\ paths_ = EmptyMap
    /\ pools_ = [n \in {DefaultPool, <<"console">>} |-> IF n = DefaultPool THEN 0 ELSE 1]
    /\ scopes = << AddRule(<<BindingEnv(NullEnv, EmptyStr, EmptyStr)>>, 1, kPhonyRule)[1] >>
    /\ stack = << Frame(RootEnv, FALSE, EmptyStr) >>
    /\ cwd = <<Slash>>
    /\ err = NoErr
    /\ used = 0
    /\ next_edge = 0
    /\ last = [stmt |-> [kind |-> "none"], ret |-> TRUE, made |-> NoEdge, env |-> RootEnv]
    /\ dirlog = << >>

\* Parse, case BUILD (lines 45-48), for the statement st of n units.
ParseBuild(st, n) ==
    LET o == ParseEdge(st, Top.env_)
    IN  /\ edges_' = o.edges
        /\ paths_' = o.paths
        /\ scopes' = o.scopes
        /\ err' = o.err
        /\ next_edge' = o.next_edge
        /\ stack' = IF o.ret THEN stack ELSE Returned(FALSE)
        /\ used' = used + n
        /\ last' = [stmt |-> st, ret |-> o.ret, made |-> o.made, env |-> Top.env_]
        /\ UNCHANGED << dupe_edge_action_, phony_cycle_action_, pools_, cwd, dirlog >>

\* A build statement of an input of build statements: one the lexer
\* rejects, or one it accepts, with every split of the outputs into explicit
\* and implicit and of the inputs into explicit, implicit and order-only.
Build ==
    /\ Parsing
    /\ used < MaxInput
    /\ \/ \E st \in BadBuildStmts :
            Cost(st) <= MaxInput - used /\ ParseBuild(st, Cost(st))
       \/ \E outs \in PathLists[MaxInput - used - 1] \ {<< >>} :
          \E ins \in PathLists[MaxInput - used - 1 - Len(outs)] :
          \E lets \in LetLists[MaxInput - used - 1 - Len(outs) - Len(ins)] :
          \E io \in 0..Len(outs) : \E c \in Splits(Len(ins)) :
            ParseBuild(BuildStmt("none", outs, io, "phony", ins, c[1], c[2], lets),
                       1 + Len(outs) + Len(ins) + Len(lets))

\* A build statement of an input with include and subninja statements.
BuildSmall ==
    /\ Parsing
    /\ used < MaxStmts
    /\ \E st \in SmallBuildStmts : ParseBuild(st, 1)

\* Parse, case TEOF (lines 82-83).
Teof ==
    /\ Parsing
    /\ stack' = Returned(TRUE)
    /\ last' = [stmt |-> [kind |-> "eof"], ret |-> TRUE, made |-> NoEdge, env |-> Top.env_]
    /\ UNCHANGED << dupe_edge_action_, phony_cycle_action_, edges_, paths_, pools_,
                    scopes, cwd, err, used, next_edge, dirlog >>

\* ParseFileInclude up to and including the call of subparser.Load (lines
\* 412-496).  When the file is loaded the nested parser starts; in every
\* other case the function runs to its end: restore and return.
FileInclude(st) ==
    /\   LET new_scope == st.kind = "subninja"
             env_ == Top.env_
             l == IncludeLines(st, env_, st.lines,
                    Locals(TRUE, FALSE, FALSE, EmptyStr, EmptyStr, cwd, dirlog, err))
             r == RestoreCwd(l.has_chdir, l.prev_cwd,
                             l.ok /\ st.load_ok, st.restore_ok, l.cwd, l.log,
                             IF l.ok THEN Msg("loading", EmptyStr) ELSE l.err)
             fail(e, sc, pa, wd, log) ==
                 /\ err' = e
                 /\ scopes' = sc
                 /\ paths_' = pa
                 /\ cwd' = wd
                 /\ dirlog' = log
                 /\ stack' = Returned(FALSE)
                 /\ last' = [stmt |-> st, ret |-> FALSE, made |-> NoEdge, env |-> env_]
         IN  IF st.bad # "none"
             THEN fail(IF st.bad = "path" THEN LexError ELSE Msg("expected newline", EmptyStr),
                       scopes, paths_, cwd, dirlog)
             ELSE IF l.returned
             THEN fail(l.err, scopes, paths_, l.cwd, l.log)
             ELSE IF ~l.ok
             THEN fail(r.err, scopes, paths_, r.cwd, r.log)
             ELSE IF ~st.load_ok
             THEN fail(r.err, SubparserScopes(new_scope, env_, l.rel_path),
                       SubparserPaths(new_scope, env_, l.rel_path), r.cwd, r.log)
             ELSE /\ Len(stack) <= MaxDepth
                  /\ err' = err
                  /\ scopes' = SubparserScopes(new_scope, env_, l.rel_path)
                  /\ paths_' = SubparserPaths(new_scope, env_, l.rel_path)
                  /\ cwd' = l.cwd
                  /\ dirlog' = l.log
                  /\ stack' = Append(stack, Frame(SubparserEnv(new_scope, env_),
                                                  l.has_chdir, l.prev_cwd))
                  /\ last' = [stmt |-> st, ret |-> TRUE, made |-> NoEdge, env |-> env_]
    /\ used' = used + 1
    /\ UNCHANGED << dupe_edge_action_, phony_cycle_action_, edges_, pools_, next_edge >>

\* An include or subninja statement of the input.
ParseFileInclude ==
    /\ Parsing
    /\ used < MaxStmts
    /\ \E st \in IncludeStmts : FileInclude(st)

\* ParseFileInclude after subparser.Load returned (lines 493-510): the
\* nested parser is gone, the working directory is restored, and a failure
\* ends the including parser's Parse as well.
FileIncludeReturn ==
    /\ Len(stack) > 1
    /\ Top.pc \in {"ok", "fail"}
    /\ \E restore_ok \in BOOLEAN :
         LET r == RestoreCwd(Top.has_chdir, Top.prev_cwd, Top.pc = "ok", restore_ok,
                             cwd, dirlog, err)
             caller == Front(stack)
         IN  /\ (~Top.has_chdir => restore_ok)
             /\ cwd' = r.cwd
             /\ dirlog' = r.log
             /\ err' = r.err
             /\ stack' = IF r.ok THEN caller
                         ELSE [caller EXCEPT ![Len(caller)].pc = "fail"]
             /\ last' = [stmt |-> [kind |-> "return"], ret |-> r.ok, made |-> NoEdge,
                         env |-> caller[Len(caller)].env_]
    /\ UNCHANGED << dupe_edge_action_, phony_cycle_action_, edges_, paths_, pools_,
                    scopes, used, next_edge >>

\* Parse, cases ERROR and default (lines 79-81, 86-88): a token that starts
\* no statement.
BadToken ==
    /\ Parsing
    /\ used < MaxStmts
    /\ \E m \in {"lexing error", "unexpected token"} :
         /\ err' = Msg(m, EmptyStr)
         /\ last' = [stmt |-> [kind |-> "token", msg |-> m], ret |-> FALSE,
                     made |-> NoEdge, env |-> Top.env_]
    /\ stack' = Returned(FALSE)
    /\ used' = used + 1
    /\ UNCHANGED << dupe_edge_action_, phony_cycle_action_, edges_, paths_, pools_,
                    scopes, cwd, next_edge, dirlog >>

\* An input with include and subninja statements.
Next == BuildSmall \/ Teof \/ BadToken \/ ParseFileInclude \/ FileIncludeReturn

\* An input of build statements, each of any shape.
NextEdge == Build \/ Teof

Spec == Init /\ [][Next]_vars

SpecEdge == Init /\ [][NextEdge]_vars

\* ---------------------------------------------------- top-level bindings

V1 == <<"1">>

V99 == <<"99">>

\* CheckNinjaVersion: the manifest asks for a version the tool is too old
\* for, and the tool gives up on the spot.
VersionTooNew(value) == value = V99

\* A top-level binding of the input; bad says where ParseLet rejects it.
LetStmt(name, val, bad) == [kind |-> "let", name |-> name, val |-> val, bad |-> bad]

LetStmts ==
    { LetStmt("x", <<Raw(A)>>, "none"),
      LetStmt("x", <<Raw(V99)>>, "none"),
      LetStmt("y", <<Special("x")>>, "none"),
      LetStmt("ninja_required_version", <<Raw(V1)>>, "none"),
      LetStmt("ninja_required_version", <<Special("x")>>, "none"),
      LetStmt("x", <<Raw(A)>>, "equals"),
      LetStmt("x", <<Raw(A)>>, "value") }

\* A value that is evaluated without looking any variable up.
LetValueLiteral(val, sc, env_) ==
    Evaluate(SelectSeq(val, LAMBDA f : f.type = "RAW"), sc, env_)

\* Line 63: the value of a top-level binding, evaluated on the spot against
\* the scope of the parser.
LetValue(val, sc, env_) == Evaluate(val, sc, env_)

\* A binding that is stored in the scope of the top-level file.
BindLetInRoot(sc, env_, name, value) == AddBinding(sc, RootEnv, name, value)

\* Line 68: the binding is stored in the scope of the parser.
BindLet(sc, env_, name, value) == AddBinding(sc, env_, name, value)

\* Lines 173-181: ParseLet fails on a missing '=' or on a value the lexer
\* rejects.
ParseLetError(bad) ==
    IF bad = "equals" THEN Msg("expected '='", EmptyStr) ELSE LexError

\* The parser gives up: the process ends inside CheckNinjaVersion.
Exited == [stack EXCEPT ![Len(stack)].pc = "fatal"]

\* A parser that never checks the version.
ChecksVersionNever(st) == FALSE

\* Lines 66-67: a binding of ninja_required_version is checked.
ChecksVersion(st) == st.bad = "none" /\ st.name = "ninja_required_version"

\* Parse, case IDENT (lines 57-70), for the binding st.
ParseIdent(st) ==
    LET env_ == Top.env_
        value == LetValue(st.val, scopes, env_)
        checks == ChecksVersion(st)
        fatal == checks /\ VersionTooNew(value)
        ret == st.bad = "none" /\ ~fatal
    IN  /\ scopes' = IF ret THEN BindLet(scopes, env_, st.name, value) ELSE scopes
        /\ err' = IF st.bad # "none" THEN ParseLetError(st.bad) ELSE err
        /\ stack' = IF fatal THEN Exited ELSE IF ret THEN stack ELSE Returned(FALSE)
        /\ last' = [stmt |-> st, ret |-> ret, made |-> NoEdge, env |-> env_,
                    checked |-> IF checks THEN <<value>> ELSE << >>]
        /\ used' = used + 1
        /\ UNCHANGED << dupe_edge_action_, phony_cycle_action_, edges_, paths_, pools_,
                        cwd, next_edge, dirlog >>

\* A top-level binding of the input.
Ident ==
    /\ Parsing
    /\ used < MaxStmts
    /\ \E st \in LetStmts : ParseIdent(st)

\* ------------------------------------------------------- rule statements

\* Rule::IsReservedBinding: the keys a rule may bind.
ReservedBindings ==
    {"command", "depfile", "dyndep", "description", "deps", "generator", "pool",
     "restat", "rspfile", "rspfile_content", "msvc_deps_prefix"}

IsReservedBinding(key) == key \in ReservedBindings

\* An indented line `key = value`; bad when ParseLet rejects it.
Line(key, val, bad) == [key |-> key, val |-> val, bad |-> bad]

\* A rule statement of the input; bad says where the lexer rejects its
\* first line.
RuleStmt(name, bad, lines) == [kind |-> "rule", name |-> name, bad |-> bad, lines |-> lines]

\* Rule::Rule.
NewRule(name) == [name |-> name, bindings |-> EmptyMap]

\* rule->bindings_[key]: the value bound to the key, an empty EvalString
\* when there is none.
RuleBinding(rule, key) ==
    IF key \in DOMAIN rule.bindings THEN rule.bindings[key] ELSE << >>

\* Lines 145-158: the indented lines of a rule.  A line ParseLet rejects or
\* a key that is not reserved ends the statement.
RECURSIVE RuleLines(_, _)
RuleLines(rule, lines) ==
    IF lines = << >> THEN [ok |-> TRUE, err |-> NoErr, rule |-> rule]
    ELSE IF Head(lines).bad
    THEN [ok |-> FALSE, err |-> LexError, rule |-> rule]
    ELSE IF IsReservedBinding(Head(lines).key)
    THEN RuleLines([rule EXCEPT !.bindings = MapPut(@, Head(lines).key, Head(lines).val)],
                   Tail(lines))
    ELSE [ok |-> FALSE, err |-> Msg("unexpected variable", <<Head(lines).key>>),
          rule |-> rule]

\* A pair of response-file bindings that is accepted whatever it is.
RspfileMismatchNever(rule) == FALSE

\* Lines 160-161: one of rspfile and rspfile_content is empty and the other
\* is not.
RspfileMismatch(rule) ==
    (RuleBinding(rule, "rspfile") = << >>) # (RuleBinding(rule, "rspfile_content") = << >>)

\* Line 166: the rule has no command, or an empty one.
CommandMissing(rule) == RuleBinding(rule, "command") = << >>

\* ManifestParser::ParseRule for the statement st in the scope env_: whether
\* it succeeds, the error, and the scopes it leaves.
ParseRule(st, env_) ==
    LET r == RuleLines(NewRule(st.name), st.lines)
        fail(e) == [ret |-> FALSE, err |-> e, scopes |-> scopes]
    IN  IF st.bad = "name" THEN fail(Msg("expected rule name", EmptyStr))
        ELSE IF st.bad = "newline" THEN fail(Msg("expected newline", EmptyStr))
        ELSE IF HasRuleCurrentScope(scopes, env_, st.name)
        THEN fail(Msg("duplicate rule", <<st.name>>))
        ELSE IF ~r.ok THEN fail(r.err)
        ELSE IF RspfileMismatch(r.rule)
        THEN fail(Msg("rspfile and rspfile_content need to be both specified", EmptyStr))
        ELSE IF CommandMissing(r.rule)
        THEN fail(Msg("expected 'command =' line", EmptyStr))
        ELSE [ret |-> TRUE, err |-> err, scopes |-> AddRule(scopes, env_, r.rule)]

\* Parse, case RULE (lines 49-52), for the statement st of n units.
ParseRuleStmt(st, n) ==
    LET o == ParseRule(st, Top.env_)
    IN  /\ scopes' = o.scopes
        /\ err' = o.err
        /\ stack' = IF o.ret THEN stack ELSE Returned(FALSE)
        /\ last' = [stmt |-> st, ret |-> o.ret, made |-> NoEdge, env |-> Top.env_]
        /\ used' = used + n
        /\ UNCHANGED << dupe_edge_action_, phony_cycle_action_, edges_, paths_, pools_,
                        cwd, next_edge, dirlog >>

\* The command of the rules of the input.
Cmd == <<Raw(<<"cmd">>)>>

\* Rule statements of an input that is about scopes: a rule cc, and a rule
\* of the name of the built-in one.
ScopeRuleStmts ==
    { RuleStmt("cc", "none", <<Line("command", Cmd, FALSE)>>),
      RuleStmt("phony", "none", <<Line("command", Cmd, FALSE)>>) }

ScopeRule ==
    /\ Parsing
    /\ used < MaxStmts
    /\ \E st \in ScopeRuleStmts : ParseRuleStmt(st, 1)

\* The longest run of indented lines below a rule.
MaxRuleLines == 3

\* The indented lines of the rules of an input that is about rules: a
\* command, a response file and its content, each with a value or with an
\* empty one, a key that is not reserved, and a line the lexer rejects.
RuleLineKinds ==
    { Line("command", Cmd, FALSE), Line("command", << >>, FALSE),
      Line("rspfile", Cmd, FALSE), Line("rspfile", << >>, FALSE),
      Line("rspfile_content", Cmd, FALSE),
      Line("foo", Cmd, FALSE), Line("command", Cmd, TRUE) }

RuleLineLists == [n \in 0..MaxRuleLines |-> SeqsUpTo(RuleLineKinds, n)]

Min(a, b) == IF a < b THEN a ELSE b

\* A rule statement of an input that is about rules: one the lexer rejects
\* on its first line, or one it accepts, of any lines.
Rule ==
    /\ Parsing
    /\ used < MaxInput
    /\ \/ \E bad \in {"name", "newline"} : ParseRuleStmt(RuleStmt("cc", bad, << >>), 1)
       \/ \E name \in {"cc", "phony"} :
          \E lines \in RuleLineLists[Min(MaxInput - used - 1, MaxRuleLines)] :
            ParseRuleStmt(RuleStmt(name, "none", lines), 1 + Len(lines))

\* A subninja statement of an input that is about rules: its file is loaded
\* in a scope of its own.
RuleSubninja ==
    /\ Parsing
    /\ used < MaxInput
    /\ FileInclude(IncludeStmt("subninja", "none", << >>, TRUE, TRUE, TRUE, TRUE))

\* An input of rule statements, in one file or in nested ones.
NextRule == Rule \/ RuleSubninja \/ FileIncludeReturn \/ Teof

SpecRule == Init /\ [][NextRule]_vars

\* Include and subninja statements of an input that is about scopes: each
\* loads its file; the subninja comes without and with a chdir line.
ScopeIncludeStmts ==
    { IncludeStmt("include", "none", << >>, TRUE, TRUE, TRUE, TRUE),
      IncludeStmt("subninja", "none", << >>, TRUE, TRUE, TRUE, TRUE),
      IncludeStmt("subninja", "none", <<IncludeLine("chdir", FALSE)>>, TRUE, TRUE, TRUE, TRUE) }

ScopeInclude ==
    /\ Parsing
    /\ used < MaxStmts
    /\ \E st \in ScopeIncludeStmts : FileInclude(st)

\* An input of bindings, rules and build statements in nested files.
NextScope == Ident \/ ScopeRule \/ ScopeInclude \/ FileIncludeReturn \/ Teof

SpecScope == Init /\ [][NextScope]_vars

\* ------------------------------------------------------- pool statements

\* A pool statement: its name, the position at which the lexer rejects its
\* first line ("none" when it does not), and its indented lines.
PoolStmt(name, bad, lines) == [kind |-> "pool", name |-> name, bad |-> bad, lines |-> lines]

\* The decimal digits, as the characters of a string.
DigitValue ==
    [c \in {"0", "1", "2", "3", "4", "5", "6", "7", "8", "9"} |->
        CASE c = "0" -> 0 [] c = "1" -> 1 [] c = "2" -> 2 [] c = "3" -> 3 [] c = "4" -> 4
          [] c = "5" -> 5 [] c = "6" -> 6 [] c = "7" -> 7 [] c = "8" -> 8 [] c = "9" -> 9]

\* atol after the sign: the number of the leading digits, 0 when there is
\* none, whatever follows them.
RECURSIVE AtolDigits(_, _)
AtolDigits(str, acc) ==
    IF str = << >> \/ Head(str) \notin DOMAIN DigitValue THEN acc
    ELSE AtolDigits(Tail(str), acc * 10 + DigitValue[Head(str)])

\* atol: an optional sign, then the leading digits.
Atol(str) ==
    IF str # << >> /\ Head(str) = "-" THEN 0 - AtolDigits(Tail(str), 0)
    ELSE IF str # << >> /\ Head(str) = "+" THEN AtolDigits(Tail(str), 0)
    ELSE AtolDigits(str, 0)

\* Lines 108-122: the indented lines, depth being the depth read so far.
RECURSIVE PoolLines(_, _, _)
PoolLines(lines, env_, depth) ==
    IF lines = << >> THEN [ok |-> TRUE, err |-> err, depth |-> depth]
    ELSE LET line == Head(lines)
             d    == Atol(Evaluate(line.val, scopes, env_))
         IN  IF line.bad THEN [ok |-> FALSE, err |-> LexError, depth |-> depth]
             ELSE IF line.key # "depth"
             THEN [ok |-> FALSE, err |-> Msg("unexpected variable", <<line.key>>),
                   depth |-> depth]
             ELSE IF d < 0
             THEN [ok |-> FALSE, err |-> Msg("invalid pool depth", EmptyStr), depth |-> d]
             ELSE PoolLines(Tail(lines), env_, d)

\* State::AddPool.
AddPool(pools, name, depth) == MapPut(pools, name, depth)

\* ManifestParser::ParsePool, for the statement st read in the scope env_.
ParsePool(st, env_) ==
    LET l == PoolLines(st.lines, env_, -1)
        fail(e) == [ret |-> FALSE, err |-> e, pools |-> pools_]
    IN  IF st.bad = "name" THEN fail(Msg("expected pool name", EmptyStr))
        ELSE IF st.bad = "newline" THEN fail(Msg("expected newline", EmptyStr))
        ELSE IF st.name \in DOMAIN pools_ THEN fail(Msg("duplicate pool", st.name))
        ELSE IF ~l.ok THEN fail(l.err)
        ELSE IF l.depth < 0 THEN fail(Msg("expected 'depth =' line", EmptyStr))
        ELSE [ret |-> TRUE, err |-> err, pools |-> AddPool(pools_, st.name, l.depth)]

\* Parse, case POOL (lines 41-44), for the statement st of n units.
ParsePoolStmt(st, n) ==
    LET o == ParsePool(st, Top.env_)
    IN  /\ pools_' = o.pools
        /\ err' = o.err
        /\ stack' = IF o.ret THEN stack ELSE Returned(FALSE)
        /\ last' = [stmt |-> st, ret |-> o.ret, made |-> NoEdge, env |-> Top.env_]
        /\ used' = used + n
        /\ UNCHANGED << dupe_edge_action_, phony_cycle_action_, edges_, paths_, scopes,
                        cwd, next_edge, dirlog >>

\* The names of the pools of the input: a new one, and the predefined one.
PoolP == <<"p">>
Console == <<"console">>

\* The indented lines of the pools of the input: a depth that is a number, a
\* zero, a negative number, a word, a number followed by a letter, nothing
\* at all; a key that is not depth; a line the lexer rejects.
PoolLineKinds ==
    { Line("depth", <<Raw(<<"4">>)>>, FALSE), Line("depth", <<Raw(<<"0">>)>>, FALSE),
      Line("depth", <<Raw(<<"-", "1">>)>>, FALSE), Line("depth", <<Raw(<<"foo">>)>>, FALSE),
      Line("depth", <<Raw(<<"4", "x">>)>>, FALSE), Line("depth", << >>, FALSE),
      Line("foo", <<Raw(<<"4">>)>>, FALSE), Line("depth", <<Raw(<<"4">>)>>, TRUE) }

PoolLineLists == [n \in 0..MaxIndent |-> SeqsUpTo(PoolLineKinds, n)]

\* A pool statement of an input that is about pools: one the lexer rejects
\* on its first line, or one it accepts, of any lines.
Pool ==
    /\ Parsing
    /\ used < MaxInput
    /\ \/ \E bad \in {"name", "newline"} : ParsePoolStmt(PoolStmt(PoolP, bad, << >>), 1)
       \/ \E name \in {PoolP, Console} :
          \E lines \in PoolLineLists[Min(MaxInput - used - 1, MaxIndent)] :
            ParsePoolStmt(PoolStmt(name, "none", lines), 1 + Len(lines))

\* The build statements of an input that is about pools: without a pool
\* binding, with one naming the pool p, the predefined pool, a pool nobody
\* declares, and with an empty one.
PoolBuildStmts ==
    { BuildStmt("none", <<<<Raw(out)>>>>, 0, "phony", << >>, 0, 0, lets) :
        out \in {A, B},
        lets \in { << >> } \cup
                 { <<[key |-> "pool", val |-> v]>> :
                     v \in { <<Raw(PoolP)>>, <<Raw(Console)>>, <<Raw(<<"nopool">>)>>, << >> } } }

PoolBuild ==
    /\ Parsing
    /\ used + 1 < MaxInput
    /\ \E st \in PoolBuildStmts : ParseBuild(st, 2)

\* An input of pool statements and of build statements that name pools.
NextPool == Pool \/ PoolBuild \/ Teof

SpecPool == Init /\ [][NextPool]_vars

\* ------------------------------------------------- edge-local bindings

\* The build statements of an input that is about edge-local bindings: an
\* output $x without indented lines; an output $x and an input $y with the
\* lines x = b and y = $x, in either order; a dyndep = $x below x = a; and a
\* plain one.
LocalBuildStmts ==
    LET let(k, v) == [key |-> k, val |-> v]
        X == <<Special("x")>>
        Y == <<Special("y")>>
    IN  { BuildStmt("none", <<X>>, 0, "phony", << >>, 0, 0, << >>),
          BuildStmt("none", <<X>>, 0, "phony", <<Y>>, 0, 0,
                    <<let("x", <<Raw(B)>>), let("y", X)>>),
          BuildStmt("none", <<X>>, 0, "phony", <<Y>>, 0, 0,
                    <<let("y", X), let("x", <<Raw(B)>>)>>),
          BuildStmt("none", <<<<Raw(B)>>>>, 0, "phony", <<<<Raw(A)>>>>, 0, 0,
                    <<let("x", <<Raw(A)>>), let("dyndep", X)>>),
          BuildStmt("none", <<<<Raw(A)>>>>, 0, "phony", << >>, 0, 0, << >>) }

LocalBuild ==
    /\ Parsing
    /\ used < MaxStmts
    /\ \E st \in LocalBuildStmts : ParseBuild(st, 1)

\* An input of top-level bindings and of build statements with bindings of
\* their own.
NextLocal == Ident \/ LocalBuild \/ Teof

SpecLocal == Init /\ [][NextLocal]_vars

\* ------------------------------------------------------------ the claims

Finished == Len(stack) = 1 /\ Top.pc # "parse"

Succeeded == Len(stack) = 1 /\ Top.pc = "ok"

\* The latest step was a build statement.
LastBuild == last.stmt.kind = "build"

\* The latest step was a build statement and its edge is in the edge list.
LastLinked ==
    /\ LastBuild
    /\ last.made # NoEdge
    /\ edges_ # << >>
    /\ Last(edges_).id = last.made

\* The nodes a list of path expressions names, for an edge with scope env.
PathKeys(exprs, sc, env) ==
    [i \in 1..Len(exprs) |->
        ApplyChdir(sc, env, CanonicalizePath(Evaluate(exprs[i], sc, env)).path)]

PathsOk(exprs, sc, env) ==
    \A i \in 1..Len(exprs) : CanonicalizePath(Evaluate(exprs[i], sc, env)).ok

RECURSIVE IsSubseq(_, _)
IsSubseq(s, t) ==
    IF s = << >> THEN TRUE
    ELSE IF t = << >> THEN FALSE
    ELSE \/ (Head(s) = Head(t) /\ IsSubseq(Tail(s), Tail(t)))
         \/ IsSubseq(s, Tail(t))

Occurs(x, s) == \E i \in 1..Len(s) : s[i] = x

\* C1: a build statement whose read of a path expression fails, at whichever
\* of the five positions, makes ParseEdge return false and ends Parse with
\* false: no further statement of the file is processed.
C1_FailedReadAborts ==
    (LastBuild /\ last.stmt.bad \in {"out", "implicit_out", "in", "implicit_in", "order_only_in"})
        => (~last.ret /\ Top.pc = "fail")

\* The unrestored switches of a log of Chdir calls: a successful switch into
\* a directory opens one, a restore closes the innermost one, and matches it
\* when it names the directory recorded before that switch.
RECURSIVE Unrestored(_, _)
Unrestored(log, open) ==
    IF log = << >> THEN [matched |-> TRUE, open |-> open]
    ELSE IF Head(log).op = "in"
    THEN Unrestored(Tail(log), IF Head(log).ok THEN Append(open, Head(log)) ELSE open)
    ELSE IF open # << >> /\ Last(open).prev = Head(log).dir
    THEN Unrestored(Tail(log), Front(open))
    ELSE [matched |-> FALSE, open |-> open]

\* The directories recorded by the subninja statements that are still being
\* parsed, outermost first.
RECURSIVE ActiveSwitches(_)
ActiveSwitches(frames) ==
    IF frames = << >> THEN << >>
    ELSE (IF Head(frames).has_chdir THEN <<Head(frames).prev_cwd>> ELSE << >>)
         \o ActiveSwitches(Tail(frames))

RestoresSucceeded == \A i \in 1..Len(dirlog) : dirlog[i].op = "restore" => dirlog[i].ok

\* C2: every successful switch into a chdir directory is followed by one
\* restore to the directory recorded before it, issued before the statement
\* returns, whatever the outcome; switches and restores nest; and when every
\* restore succeeded the working directory is the one the statements still
\* being parsed switched to (the initial one when there is none).
C2_ChdirBracketed ==
    LET u == Unrestored(dirlog, << >>)
    IN  /\ u.matched
        /\ [i \in 1..Len(u.open) |-> u.open[i].prev] = ActiveSwitches(stack)
        /\ RestoresSucceeded =>
             cwd = IF u.open = << >> THEN <<Slash>>
                   ELSE ChdirTo(Last(u.open).prev, Last(u.open).dir)

\* Two nested subninja statements switched directory, the inner file failed,
\* and both were restored.
C2_Witness ==
    /\ Finished
    /\ Top.pc = "fail"
    /\ Len(dirlog) = 4
    /\ dirlog[1].op = "in" /\ dirlog[1].ok
    /\ dirlog[2].op = "in" /\ dirlog[2].ok
    /\ dirlog[3].op = "restore" /\ dirlog[3].dir = <<Slash, "sub", Slash>>
    /\ dirlog[4].op = "restore" /\ dirlog[4].dir = <<Slash>>
    /\ cwd = <<Slash>>

\* C3: the inputs of the edge a successful build statement linked are three
\* blocks, explicit, implicit, order-only, each in the order of the file, and
\* implicit_deps_ and order_only_deps_ are the lengths of the last two.
C3_InputBlocks ==
    (LastLinked /\ last.ret) =>
        LET e  == Last(edges_)
            st == last.stmt
            n  == Len(e.inputs_)
            keys == PathKeys(st.ins, scopes, e.env_)
            m  == Len(keys)
            x  == n - e.implicit_deps_ - e.order_only_deps_
        IN  /\ e.implicit_deps_ + e.order_only_deps_ <= n
            /\ IsSubseq(SubSeq(e.inputs_, 1, x),
                        SubSeq(keys, 1, m - st.implicit - st.order_only))
            /\ IsSubseq(SubSeq(e.inputs_, x + 1, x + e.implicit_deps_),
                        SubSeq(keys, m - st.implicit - st.order_only + 1, m - st.order_only))
            /\ IsSubseq(SubSeq(e.inputs_, x + e.implicit_deps_ + 1, n),
                        SubSeq(keys, m - st.order_only + 1, m))

\* A build statement with an implicit and an order-only input was linked, and
\* its only output is among its inputs.
C3_Witness ==
    /\ LastLinked /\ last.ret
    /\ last.stmt.implicit > 0 /\ last.stmt.order_only > 0
    /\ Len(Last(edges_).outputs_) = 1
    /\ Occurs(Last(edges_).outputs_[1], PathKeys(last.stmt.ins, scopes, Last(edges_).env_))

\* The step handled a build statement that the lexer accepted, whose rule is
\* known and whose pool binding, if it has one, names a pool: the statement
\* gets as far as linking its outputs.
ReachesOutputs ==
    LET st == last'.stmt
    IN  /\ st.kind = "build"
        /\ st.bad = "none"
        /\ st.outs # << >>
        /\ RuleScope(scopes, last'.env, st.rule) # NullEnv
        /\ LET pn == LookupVariable(EdgeScopes(st, last'.env), EdgeEnvOf(st, last'.env), "pool")
           IN  pn = EmptyStr \/ pn \in DOMAIN pools_

\* The nodes the outputs of the step's build statement name.
StepOutKeys ==
    PathKeys(last'.stmt.outs, EdgeScopes(last'.stmt, last'.env), EdgeEnvOf(last'.stmt, last'.env))

StepOutsOk ==
    PathsOk(last'.stmt.outs, EdgeScopes(last'.stmt, last'.env), EdgeEnvOf(last'.stmt, last'.env))

\* Whether a node had a producing edge before the step.
Produced(key) == key \in DOMAIN paths_ /\ paths_[key].in_edge # NoEdge

\* Output i of the step's statement is new: no edge produced its node before
\* the statement and no earlier output of the statement names it.
Fresh(keys, i) == ~Produced(keys[i]) /\ \A j \in 1..(i - 1) : keys[j] # keys[i]

\* The first n of a list of keys, without the ones that are not new.
RECURSIVE FreshKeys(_, _)
FreshKeys(keys, n) ==
    IF n = 0 THEN << >>
    ELSE IF Fresh(keys, n) THEN Append(FreshKeys(keys, n - 1), keys[n])
    ELSE FreshKeys(keys, n - 1)

\* C4: under the warn-and-drop policy the edge of a build statement keeps
\* the outputs that had no producing edge when they were reached (a path the
\* statement repeats is produced by its first occurrence), in declared order,
\* and implicit_outs_ is the number of kept outputs declared implicit.
C4_Step ==
    (/\ dupe_edge_action_ = "kDupeEdgeActionWarn"
     /\ ReachesOutputs /\ StepOutsOk /\ last'.ret
     /\ edges_' # edges_)
    => LET e == Last(edges_')
           keys == StepOutKeys
           n == Len(keys)
       IN  /\ e.id = last'.made
           /\ e.outputs_ = FreshKeys(keys, n)
           /\ e.implicit_outs_ =
                Cardinality({ i \in 1..n : Fresh(keys, i) /\ i > n - last'.stmt.implicit_outs })

C4_KeptOutputs == [][C4_Step]_vars

\* An edge declared an explicit and an implicit output; the explicit one was
\* already produced and was dropped, the implicit one was kept.
C4_Witness ==
    /\ dupe_edge_action_ = "kDupeEdgeActionWarn"
    /\ LastLinked /\ last.ret
    /\ Len(last.stmt.outs) = 2 /\ last.stmt.implicit_outs = 1
    /\ Len(Last(edges_).outputs_) = 1
    /\ Last(edges_).implicit_outs_ = 1
    /\ Len(edges_) = 2

\* C5: under the warn-and-drop policy a build statement all of whose outputs
\* already have a producing edge succeeds, leaves the edge list and every
\* node as they were, so that no node names the discarded edge, and parsing
\* goes on; and after a successful parse every edge has an output.
C5_Step ==
    /\ (/\ dupe_edge_action_ = "kDupeEdgeActionWarn"
        /\ ReachesOutputs /\ StepOutsOk
        /\ \A i \in 1..Len(StepOutKeys) : Produced(StepOutKeys[i]))
       => /\ last'.ret
          /\ edges_' = edges_
          /\ paths_' = paths_
          /\ last'.made = next_edge + 1
          /\ \A k \in DOMAIN paths_' :
               /\ paths_'[k].in_edge # last'.made
               /\ ~Occurs(last'.made, paths_'[k].out_edges)
          /\ stack' = stack
    /\ Succeeded' => \A k \in 1..Len(edges_') : edges_'[k].outputs_ # << >>

C5_DiscardedEdge == [][C5_Step]_vars

\* A build statement with inputs was discarded: it allocated an edge, the
\* edge list holds only the edge of the statement before it.
C5_Witness ==
    /\ dupe_edge_action_ = "kDupeEdgeActionWarn"
    /\ LastBuild /\ last.ret
    /\ last.made = 2
    /\ Len(edges_) = 1
    /\ last.stmt.ins # << >>

\* The first output of a list that is not new.
FirstDupe(keys) == CHOOSE i \in 1..Len(keys) : ~Fresh(keys, i) /\ \A j \in 1..(i - 1) : Fresh(keys, j)

\* C6: under the error policy a build statement naming an output that
\* already has a producing edge fails with "multiple rules generate <path>",
\* and every path keeps the producing edge it had.
C6_Step ==
    (/\ dupe_edge_action_ = "kDupeEdgeActionError"
     /\ ReachesOutputs /\ StepOutsOk
     /\ \E i \in 1..Len(StepOutKeys) : Produced(StepOutKeys[i]))
    => /\ ~last'.ret
       /\ Top'.pc = "fail"
       /\ err'.msg = "multiple rules generate"
       /\ ApplyChdir(scopes', EdgeEnvOf(last'.stmt, last'.env), err'.arg)
             = StepOutKeys[FirstDupe(StepOutKeys)]
       /\ \A k \in DOMAIN paths_ :
            Produced(k) => paths_'[k].in_edge = paths_[k].in_edge

C6_DuplicateOutputFails == [][C6_Step]_vars

\* Under the error policy the second of two statements failed on an output
\* the first produces, after linking an output of its own.
C6_Witness ==
    /\ dupe_edge_action_ = "kDupeEdgeActionError"
    /\ LastBuild /\ ~last.ret
    /\ err.msg = "multiple rules generate"
    /\ Len(edges_) = 2
    /\ edges_[2].outputs_ # << >>
    /\ paths_[ApplyChdir(scopes, edges_[2].env_, err.arg)].in_edge = 1

\* Every path of the store is canonical, a path's producing edge is an edge
\* of the edge list that has the path among its outputs, and every output of
\* an edge of the list has that edge as its producing edge.
OneProducer ==
    /\ \A k \in DOMAIN paths_ :
         /\ CanonicalizePath(k) = [ok |-> TRUE, path |-> k]
         /\ paths_[k].in_edge # NoEdge
              => \E n \in 1..Len(edges_) :
                   edges_[n].id = paths_[k].in_edge /\ Occurs(k, edges_[n].outputs_)
    /\ \A n \in 1..Len(edges_) : \A j \in 1..Len(edges_[n].outputs_) :
         /\ edges_[n].outputs_[j] \in DOMAIN paths_
         /\ paths_[edges_[n].outputs_[j]].in_edge = edges_[n].id

\* C7: under either duplicate-output policy every canonical path has one
\* node with at most one producing edge, each output of an edge of the edge
\* list has that edge as its producing edge, a producing edge is never
\* reassigned, and a path gets its producing edge from the first statement
\* that declares it as an output.
C7_Step ==
    /\ OneProducer'
    /\ \A k \in DOMAIN paths_ : k \in DOMAIN paths_'
    /\ \A k \in DOMAIN paths_' :
         IF Produced(k)
         THEN paths_'[k].in_edge = paths_[k].in_edge
         ELSE paths_'[k].in_edge # NoEdge
                => /\ paths_'[k].in_edge = next_edge + 1
                   /\ last'.made = next_edge + 1
                   /\ Occurs(k, StepOutKeys)
    /\ (ReachesOutputs /\ StepOutsOk /\ last'.ret)
         => \A i \in 1..Len(StepOutKeys) :
              paths_'[StepOutKeys[i]].in_edge # NoEdge

C7_OneProducer == [][C7_Step]_vars

\* A later statement declared an output that an earlier edge produces, next
\* to one of its own: the earlier edge still produces the first.
C7_Witness ==
    /\ LastLinked /\ last.ret
    /\ Len(edges_) = 2
    /\ \E i, j \in 1..Len(last.stmt.outs) :
         LET keys == PathKeys(last.stmt.outs, scopes, edges_[2].env_)
         IN  paths_[keys[i]].in_edge = 1 /\ paths_[keys[j]].in_edge = 2

\* The number of elements of a sequence equal to a value.
Count(x, s) == Cardinality({ i \in 1..Len(s) : s[i] = x })

DyndepKey(e) ==
    CanonicalizePath(ApplyChdir(scopes, e.env_, GetBinding(scopes, e, "dyndep"))).path

C9_WitnessFails ==
    /\ LastLinked /\ ~last.ret
    /\ err.msg = "dyndep is not an input"
    /\ last.stmt.ins # << >>

\* The statement has a binding of the key.
HasLet(st, key) == \E i \in 1..Len(st.lets) : st.lets[i].key = key

kDepslogError == Msg("multiple outputs aren't (yet?) supported by depslog", EmptyStr)

\* C10 as stated: a build statement that declares more than one output and
\* has a non-empty deps binding fails, whether or not an output was dropped.
C10_DeclaredOutputs ==
    (/\ LastBuild /\ last.stmt.bad = "none"
     /\ Len(last.stmt.outs) > 1
     /\ HasLet(last.stmt, "deps"))
    => ~last.ret

\* C10: a build statement whose edge keeps more than one output and has a
\* non-empty deps binding fails with the depslog message, under either
\* duplicate-output policy; a statement that declared more than one output
\* and keeps one, the others dropped as duplicates, is not rejected for it.
C10_KeptOutputs ==
    LastLinked
    => LET e == Last(edges_)
           st == last.stmt
           deps == GetBinding(scopes, e, "deps")
       IN  /\ (/\ deps # EmptyStr /\ Len(e.outputs_) > 1 /\ st.bad = "none"
               /\ PathsOk(st.outs, scopes, e.env_) /\ PathsOk(st.ins, scopes, e.env_))
                => /\ ~last.ret /\ Top.pc = "fail"
                   /\ \/ err = kDepslogError
                      \/ /\ dupe_edge_action_ = "kDupeEdgeActionError"
                         /\ err.msg = "multiple rules generate"
           /\ (~last.ret /\ err = kDepslogError)
                => deps # EmptyStr /\ Len(e.outputs_) > 1
           /\ (/\ dupe_edge_action_ = "kDupeEdgeActionWarn" /\ Len(st.outs) > 1
               /\ deps # EmptyStr /\ Len(e.outputs_) = 1 /\ st.bad = "none"
               /\ PathsOk(st.outs, scopes, e.env_) /\ PathsOk(st.ins, scopes, e.env_)
               /\ ~HasLet(st, "dyndep"))
                => last.ret

\* A statement with two outputs and a deps binding failed on the depslog
\* check.
C10_Witness ==
    /\ LastLinked /\ ~last.ret
    /\ err = kDepslogError
    /\ Len(Last(edges_).outputs_) = 2
    /\ HasLet(last.stmt, "deps")

\* Whether a scope or one of its parents binds the variable.
RECURSIVE Bound(_, _, _)
Bound(sc, env, var) ==
    env # NullEnv /\ (var \in DOMAIN sc[env].bindings \/ Bound(sc, sc[env].parent, var))

\* The step stored a top-level binding.
LetStored == last'.stmt.kind = "let" /\ last'.ret

\* C11: a top-level binding stores, in the scope of the parser, the value
\* its right-hand side has against the scope as it is at the statement, the
\* empty string for a reference nothing binds; the stored value replaces an
\* earlier one of the same name for every later lookup; and no step changes
\* any other binding that was stored before.
C11_Step ==
    /\ LetStored
         => LET st == last'.stmt
                env == last'.env
            IN  /\ env = Top.env_
                /\ Len(scopes') = Len(scopes)
                /\ scopes'[env].bindings[st.name] = Evaluate(st.val, scopes, env)
                /\ LookupVariable(scopes', env, st.name) = Evaluate(st.val, scopes, env)
                /\ (st.val = <<Special("x")>> /\ ~Bound(scopes, env, "x"))
                     => scopes'[env].bindings[st.name] = EmptyStr
                /\ (st.val = <<Special("x")>> /\ Bound(scopes, env, "x"))
                     => scopes'[env].bindings[st.name] = LookupVariable(scopes, env, "x")
    /\ \A i \in 1..Len(scopes) : \A k \in DOMAIN scopes[i].bindings :
         (LetStored /\ i = last'.env /\ k = last'.stmt.name)
           \/ (k \in DOMAIN scopes'[i].bindings /\ scopes'[i].bindings[k] = scopes[i].bindings[k])

C11_ImmediateBinding == [][C11_Step]_vars

\* y was bound to $x while x was "a", then x was rebound: y is still "a".
C11_Witness ==
    /\ last.stmt.kind = "let" /\ last.ret
    /\ last.stmt.name = "x"
    /\ "y" \in DOMAIN scopes[1].bindings
    /\ scopes[1].bindings["y"] = A
    /\ scopes[1].bindings["x"] = V99

\* The scopes a lookup from a scope goes through: the scope and its parents.
RECURSIVE Chain(_, _)
Chain(sc, env) == IF env = NullEnv THEN {} ELSE {env} \cup Chain(sc, sc[env].parent)

VarNames == {"x", "y", "ninja_required_version"}

\* The scope chain of every parser holds only scopes of parsers that are
\* still at work, its own and those of its includers: the scope of a file
\* that was parsed as a subninja is out of reach once the file is done.
ScopesNested ==
    \A i \in 1..Len(stack) :
        Chain(scopes, stack[i].env_) \subseteq { stack[j].env_ : j \in 1..i }

\* C12: the parser of an included file works in the scope of its includer,
\* so what it binds and the rules it adds are the includer's; the parser of
\* a subninja file, with or without chdir, works in a new scope whose parent
\* is the includer's, sees what the includer bound and the rules it added
\* before, and changes nothing an includer can look up, then or later.
C12_Step ==
    /\ Len(stack') = Len(stack) + 1
         => IF last'.stmt.kind = "include"
            THEN Top'.env_ = Top.env_ /\ scopes' = scopes
            ELSE /\ last'.stmt.kind = "subninja"
                 /\ Top'.env_ = Len(scopes) + 1
                 /\ Len(scopes') = Len(scopes) + 1
                 /\ scopes'[Top'.env_].parent = Top.env_
                 /\ scopes'[Top'.env_].bindings = EmptyMap
                 /\ \A i \in 1..Len(scopes) : scopes'[i] = scopes[i]
                 /\ \A v \in VarNames :
                      LookupVariable(scopes', Top'.env_, v) = LookupVariable(scopes, Top.env_, v)
                 /\ RuleScope(scopes', Top'.env_, "cc") = RuleScope(scopes, Top.env_, "cc")
    /\ Len(stack') = Len(stack)
         => /\ \A i \in 1..Len(scopes) : i # Top.env_ => scopes'[i] = scopes[i]
            /\ \A i \in 1..Len(stack) :
                 IF stack[i].env_ = Top.env_
                 THEN /\ LetStored =>
                           LookupVariable(scopes', stack[i].env_, last'.stmt.name)
                             = Evaluate(last'.stmt.val, scopes, Top.env_)
                      /\ (last'.stmt.kind = "rule" /\ last'.ret) =>
                           RuleScope(scopes', stack[i].env_, last'.stmt.name) = stack[i].env_
                 ELSE /\ \A v \in VarNames :
                           LookupVariable(scopes', stack[i].env_, v)
                             = LookupVariable(scopes, stack[i].env_, v)
                      /\ \A r \in {"cc", "phony"} :
                           RuleScope(scopes', stack[i].env_, r) = RuleScope(scopes, stack[i].env_, r)
    /\ Len(stack') = Len(stack) - 1
         => /\ scopes' = scopes
            /\ Top'.env_ = stack[Len(stack) - 1].env_
    /\ ScopesNested'

C12_WitnessInclude ==
    /\ Len(stack) = 1 /\ Parsing
    /\ last.stmt.kind = "return"
    /\ Len(scopes) = 1
    /\ LookupVariable(scopes, Top.env_, "x") = A
    /\ RuleScope(scopes, Top.env_, "cc") = RootEnv

\* The step handled a rule statement the lexer accepted, lines included.
RuleRead ==
    /\ last'.stmt.kind = "rule"
    /\ last'.stmt.bad = "none"
    /\ \A i \in 1..Len(last'.stmt.lines) : ~last'.stmt.lines[i].bad

\* The statement has a line of the key.
HasLine(st, key) == \E i \in 1..Len(st.lines) : st.lines[i].key = key

\* The value the statement gives the key: that of its last line of the key,
\* empty when it has none.
RECURSIVE LineValue(_, _)
LineValue(lines, key) ==
    IF lines = << >> THEN << >>
    ELSE IF Last(lines).key = key THEN Last(lines).val
    ELSE LineValue(Front(lines), key)

\* The rule is new to the scope of the parser and every key is reserved.
RuleAdmissible ==
    /\ last'.stmt.name \notin DOMAIN scopes[Top.env_].rules
    /\ \A i \in 1..Len(last'.stmt.lines) : last'.stmt.lines[i].key \in ReservedBindings

\* C13 as stated: a rule is registered if and only if it is new to the
\* current scope, every key is reserved, rspfile and rspfile_content are both
\* present or both absent, and command is present.
C13_PresentStep ==
    RuleRead
    => (last'.ret <=> /\ RuleAdmissible
                      /\ HasLine(last'.stmt, "rspfile") <=> HasLine(last'.stmt, "rspfile_content")
                      /\ HasLine(last'.stmt, "command"))

C13_PresentBindings == [][C13_PresentStep]_vars

\* C13: a rule statement registers its rule in the current scope if and only
\* if no rule of the name is registered in that scope itself (one in a parent
\* scope is shadowed), every indented key is reserved, rspfile and
\* rspfile_content both have a non-empty value or both have none, and command
\* has a non-empty value, a line with an empty value counting as no line; in
\* every other case the parse fails and no scope changes.
C13_Step ==
    /\ RuleRead
         => LET st == last'.stmt
                env == Top.env_
            IN  /\ last'.ret
                     <=> /\ RuleAdmissible
                         /\ (LineValue(st.lines, "rspfile") = << >>)
                              <=> (LineValue(st.lines, "rspfile_content") = << >>)
                         /\ LineValue(st.lines, "command") # << >>
                /\ last'.ret
                     => /\ DOMAIN scopes'[env].rules = DOMAIN scopes[env].rules \cup {st.name}
                        /\ scopes'[env].rules[st.name].name = st.name
                        /\ \A k \in ReservedBindings :
                             RuleBinding(scopes'[env].rules[st.name], k) = LineValue(st.lines, k)
                        /\ \A r \in DOMAIN scopes[env].rules :
                             scopes'[env].rules[r] = scopes[env].rules[r]
                        /\ \A i \in 1..Len(scopes) : i # env => scopes'[i] = scopes[i]
                        /\ scopes'[env].bindings = scopes[env].bindings
    /\ (last'.stmt.kind = "rule" /\ ~last'.ret)
         => scopes' = scopes /\ Top'.pc = "fail"

C13_RuleRegistered == [][C13_Step]_vars

\* In the scope of a subninja file a rule cc was registered, shadowing the
\* rule cc of the includer.
C13_Witness ==
    /\ last.stmt.kind = "rule" /\ last.ret
    /\ last.env = 2
    /\ "cc" \in DOMAIN scopes[1].rules
    /\ "cc" \in DOMAIN scopes[2].rules

\* A rule with a response file, its content and a command was registered.
C13_WitnessRspfile ==
    /\ last.stmt.kind = "rule" /\ last.ret
    /\ LineValue(last.stmt.lines, "rspfile") # << >>
    /\ LineValue(last.stmt.lines, "rspfile_content") # << >>

\* The step handled a pool statement the lexer accepted, lines included.
PoolRead ==
    /\ last'.stmt.kind = "pool"
    /\ last'.stmt.bad = "none"
    /\ \A i \in 1..Len(last'.stmt.lines) : ~last'.stmt.lines[i].bad

\* The string is a non-negative integer in decimal.
IsNonNegInt(str) == str # << >> /\ \A i \in 1..Len(str) : str[i] \in DOMAIN DigitValue

\* The value of the i-th line of the statement of the step.
DepthString(i) == Evaluate(last'.stmt.lines[i].val, scopes, Top.env_)

\* C14: a pool statement registers its pool if and only if the name is not
\* in the pool table, every indented key is depth, there is at least one
\* depth line and every depth value is a non-negative integer; a failing pool
\* statement leaves the pool table unchanged, and no registered pool has a
\* negative depth.
C14_Step ==
    /\ PoolRead
         => (last'.ret
               <=> /\ last'.stmt.name \notin DOMAIN pools_
                   /\ last'.stmt.lines # << >>
                   /\ \A i \in 1..Len(last'.stmt.lines) :
                        /\ last'.stmt.lines[i].key = "depth"
                        /\ IsNonNegInt(DepthString(i)))
    /\ (last'.stmt.kind = "pool" /\ ~last'.ret) => pools_' = pools_
    /\ \A n \in DOMAIN pools_' : pools_'[n] >= 0

C14_PoolRegistered == [][C14_Step]_vars

\* The part of C14 that is about the pool table: a failing pool statement
\* leaves it unchanged, a succeeding one adds its pool and nothing else, and
\* no registered pool has a negative depth.
C14_TableStep ==
    /\ (last'.stmt.kind = "pool" /\ ~last'.ret) => pools_' = pools_
    /\ (last'.stmt.kind = "pool" /\ last'.ret)
         => /\ DOMAIN pools_' = DOMAIN pools_ \cup {last'.stmt.name}
            /\ last'.stmt.name \notin DOMAIN pools_
            /\ \A n \in DOMAIN pools_ : pools_'[n] = pools_[n]
    /\ \A n \in DOMAIN pools_' : pools_'[n] >= 0

C14_PoolTable == [][C14_TableStep]_vars

\* A pool was registered by a statement with a depth that is not a number.
C14_Witness ==
    /\ last.stmt.kind = "pool" /\ last.ret
    /\ \E i \in 1..Len(last.stmt.lines) :
         ~IsNonNegInt(Evaluate(last.stmt.lines[i].val, scopes, last.env))
    /\ pools_[last.stmt.name] = 0

\* The value of the pool binding of the build statement of the step: that of
\* its last indented pool line, else that of the enclosing scope.
RECURSIVE LetValueOf(_, _, _)
LetValueOf(lets, key, other) ==
    IF lets = << >> THEN other
    ELSE IF Last(lets).key = key THEN Evaluate(Last(lets).val, scopes, Top.env_)
    ELSE LetValueOf(Front(lets), key, other)

StepPoolName ==
    LetValueOf(last'.stmt.lets, "pool", LookupVariable(scopes, Top.env_, "pool"))

\* C15: the pool of an edge is resolved while its build statement is parsed.
\* A non-empty pool binding that names a pool of the pool table as it is at
\* that moment puts the edge in that pool, with the depth it was registered
\* with; one that names no pool of the table fails the parse with "unknown
\* pool name"; without a pool binding the edge is in the default pool.
C15_Step ==
    (last'.stmt.kind = "build" /\ last'.stmt.bad = "none")
    => /\ (StepPoolName # EmptyStr /\ StepPoolName \notin DOMAIN pools_)
            => /\ ~last'.ret
               /\ err' = Msg("unknown pool name", StepPoolName)
               /\ Top'.pc = "fail"
       /\ (last'.ret /\ LastLinked')
            => /\ Last(edges_').pool_ =
                    IF StepPoolName = EmptyStr THEN DefaultPool ELSE StepPoolName
               /\ Last(edges_').pool_ \in DOMAIN pools_
               /\ pools_' = pools_

C15_PoolResolved == [][C15_Step]_vars

\* Every edge is in a pool of the pool table.
C15_EdgesPooled == \A i \in 1..Len(edges_) : edges_[i].pool_ \in DOMAIN pools_

\* An edge was put in the pool p that an earlier pool statement registered
\* with depth 4.
C15_Witness ==
    /\ LastLinked
    /\ Last(edges_).pool_ = PoolP
    /\ pools_[PoolP] = 4

\* A build statement named the pool p before any statement declared it.
C15_WitnessUnknown ==
    /\ LastBuild /\ ~last.ret
    /\ err = Msg("unknown pool name", PoolP)

\* The step handled an include or subninja statement.
StepInclude == last'.stmt.kind \in {"include", "subninja"}

\* The i-th indented line of the statement is one the statement may not
\* have: a key other than chdir, a chdir under include, a second chdir.
BadIncludeLine(st, i) ==
    /\ ~st.lines[i].bad
    /\ \/ st.lines[i].key # "chdir"
       \/ st.kind = "include"
       \/ \E j \in 1..(i - 1) : st.lines[j].key = "chdir"

\* C16: an include with an indented chdir, a subninja with a second chdir,
\* and either with an indented line of any other key fail: the file is not
\* loaded, no nested parser starts and no scope is created.  An include
\* statement never switches the working directory.
C16_Step ==
    /\ (StepInclude /\ last'.stmt.bad = "none"
        /\ \E i \in 1..Len(last'.stmt.lines) : BadIncludeLine(last'.stmt, i))
         => /\ ~last'.ret
            /\ Len(stack') = Len(stack)
            /\ Top'.pc = "fail"
            /\ scopes' = scopes
            /\ paths_' = paths_
            /\ err'.msg \in {"illegal key", "invalid use of 'chdir' in include line",
                             "duplicate 'chdir' in subninja", "lexing error",
                             "Getcwd", "Chdir to"}
            /\ (err'.msg = "illegal key" => \E i \in 1..Len(last'.stmt.lines) :
                                               last'.stmt.lines[i].key # "chdir")
            /\ (err'.msg = "invalid use of 'chdir' in include line"
                  => last'.stmt.kind = "include")
    /\ (StepInclude /\ last'.stmt.kind = "include")
         => cwd' = cwd /\ dirlog' = dirlog

C16_IncludeLines == [][C16_Step]_vars

\* A subninja statement with two chdir lines failed after it had switched
\* the working directory for the first and back again.
C16_Witness ==
    /\ last.stmt.kind = "subninja" /\ ~last.ret
    /\ Len(last.stmt.lines) = 2
    /\ last.stmt.lines[2].key = "chdir" /\ ~last.stmt.lines[2].bad
    /\ err.msg = "duplicate 'chdir' in subninja"
    /\ Len(dirlog) = 2

\* An include statement with an indented chdir failed.
C16_WitnessInclude ==
    /\ last.stmt.kind = "include" /\ ~last.ret
    /\ err.msg = "invalid use of 'chdir' in include line"

\* The step handled a binding of ninja_required_version that the lexer
\* accepted.
StepVersion ==
    /\ last'.stmt.kind = "let"
    /\ last'.stmt.bad = "none"
    /\ last'.stmt.name = "ninja_required_version"

\* C17: a top-level binding of ninja_required_version has its value checked
\* as soon as it is evaluated: the check gets the value the expression has in
\* the scope as it is then, before the binding is stored; when the check
\* ends the program the binding is not stored and nothing more is read.  No
\* other statement is checked.
C17_Step ==
    /\ \A i \in 1..Len(stack) : stack[i].pc # "fatal"
    /\ StepVersion
         => LET value == Evaluate(last'.stmt.val, scopes, Top.env_)
            IN  /\ last'.checked = <<value>>
                /\ VersionTooNew(value)
                     => /\ scopes' = scopes
                        /\ Top'.pc = "fatal"
                        /\ ~last'.ret
                /\ ~VersionTooNew(value)
                     => /\ last'.ret
                        /\ stack' = stack
                        /\ LookupVariable(scopes', Top.env_, "ninja_required_version") = value
    /\ (last'.stmt.kind = "let" /\ ~StepVersion) => last'.checked = << >>

C17_VersionChecked == [][C17_Step]_vars

\* The version check got the value 99 of a variable bound earlier and ended
\* the program; ninja_required_version is unbound.
C17_Witness ==
    /\ Top.pc = "fatal"
    /\ last.stmt.val = <<Special("x")>>
    /\ last.checked = <<V99>>
    /\ LookupVariable(scopes, last.env, "ninja_required_version") = EmptyStr

\* The version check passed and the binding was stored.
C17_WitnessPassed ==
    /\ last.stmt.kind = "let" /\ last.ret
    /\ last.checked = <<V1>>
    /\ LookupVariable(scopes, last.env, "ninja_required_version") = V1

\* The step started the nested parser of a subninja statement with a chdir.
StepChdirLoad ==
    /\ last'.stmt.kind = "subninja"
    /\ last'.ret
    /\ Len(stack') = Len(stack) + 1
    /\ last'.stmt.lines # << >>

\* C18: when the nested parser of a subninja with a chdir starts, every node
\* whose path begins with the directory of the new scope has the new scope
\* as its scope, every other node has the scope it had, and the path table
\* has the nodes it had, otherwise unchanged.  A nested parser that starts
\* without a chdir changes no node.
C18_Step ==
    /\ StepChdirLoad
         => LET new == Top'.env_
                abs == scopes[Top.env_].abs_path
                         \o Evaluate(last'.stmt.lines[1].val, scopes, Top.env_) \o <<Slash>>
            IN  /\ new = Len(scopes) + 1
                /\ scopes'[new].abs_path = abs
                /\ DOMAIN paths_' = DOMAIN paths_
                /\ \A k \in DOMAIN paths_ :
                     /\ paths_'[k].env = IF IsPrefix(abs, k) THEN new ELSE paths_[k].env
                     /\ paths_'[k] = [paths_[k] EXCEPT !.env = paths_'[k].env]
    /\ (StepInclude /\ last'.ret /\ last'.stmt.lines = << >>) => paths_' = paths_

C18_Rehomed == [][C18_Step]_vars

\* The nested parser of a subninja with chdir = sub has started: the node
\* sub/a, interned by the includer, has the new scope, the node a has the
\* scope of the includer.
C18_Witness ==
    /\ Len(stack) = 2 /\ Top.pc = "parse"
    /\ last.stmt.kind = "subninja" /\ last.stmt.lines # << >>
    /\ SubA \in DOMAIN paths_ /\ paths_[SubA].env = Top.env_
    /\ A \in DOMAIN paths_ /\ paths_[A].env = RootEnv
    /\ Top.env_ # RootEnv

\* The step handled a build statement the lexer accepted, of a known rule.
StepBuildRead ==
    /\ last'.stmt.kind = "build"
    /\ last'.stmt.bad = "none"
    /\ last'.stmt.outs # << >>
    /\ RuleScope(scopes, Top.env_, last'.stmt.rule) # NullEnv

\* The keys of a list of bindings.
LetKeys(lets) == { lets[i].key : i \in 1..Len(lets) }

\* The right-hand side of the last binding of the key.
RECURSIVE LetExpr(_, _)
LetExpr(lets, key) ==
    IF Last(lets).key = key THEN Last(lets).val ELSE LetExpr(Front(lets), key)

\* The scope of the edge of the step: a new one with the indented bindings,
\* each evaluated against the enclosing scope as it was, or the enclosing
\* scope itself, nothing created, when there is no indented line.
StepEdgeScope ==
    LET st == last'.stmt
        e  == Len(scopes) + 1
    IN  /\ st.lets # << >>
             => /\ Len(scopes') = e
                /\ \A i \in 1..Len(scopes) : scopes'[i] = scopes[i]
                /\ scopes'[e].parent = Top.env_
                /\ DOMAIN scopes'[e].bindings = LetKeys(st.lets)
                /\ \A k \in LetKeys(st.lets) :
                     scopes'[e].bindings[k] = Evaluate(LetExpr(st.lets, k), scopes, Top.env_)
                /\ (last'.ret /\ LastLinked') => Last(edges_').env_ = e
        /\ st.lets = << >>
             => /\ scopes' = scopes
                /\ (last'.ret /\ LastLinked') => Last(edges_').env_ = Top.env_

\* The outputs and inputs of the edge of the step are the nodes their
\* expressions name in the scope of the edge.
StepEdgePaths ==
    (last'.ret /\ LastLinked')
    => LET e == Last(edges_')
           outkeys == PathKeys(last'.stmt.outs, scopes', e.env_)
           inkeys  == PathKeys(last'.stmt.ins, scopes', e.env_)
       IN  /\ e.outputs_ # << >>
           /\ IsSubseq(e.outputs_, outkeys)
           /\ IsSubseq(e.inputs_, inkeys)
           /\ (\A i \in 1..Len(inkeys) : ~Occurs(inkeys[i], outkeys)) => e.inputs_ = inkeys

\* The node a dyndep value names for the edge e.
DyndepNode(value, e) ==
    IF value = EmptyStr THEN EmptyStr
    ELSE CanonicalizePath(ApplyChdir(scopes', e.env_, value)).path

\* C19 as stated: the indented bindings are evaluated against the enclosing
\* scope; the output, input and dyndep expressions of the statement are
\* evaluated against the scope of the edge and see its bindings.
C19_SeenStep ==
    StepBuildRead
    => /\ StepEdgeScope
       /\ StepEdgePaths
       /\ (last'.ret /\ LastLinked' /\ "dyndep" \in LetKeys(last'.stmt.lets))
            => LET e == Last(edges_')
               IN  e.dyndep_ =
                     DyndepNode(Evaluate(LetExpr(last'.stmt.lets, "dyndep"), scopes', e.env_), e)

C19_PathsSeeLocals == [][C19_SeenStep]_vars

\* C19: the right-hand side of each indented binding of a build statement,
\* a dyndep binding included, is evaluated against the enclosing scope and
\* sees no binding of the statement, whatever their order; the output and
\* input expressions are evaluated against the scope of the edge and see all
\* of them; the dyndep node is named by the value the dyndep binding got.
\* Without an indented line the scope of the edge is the enclosing scope and
\* no scope is created.
C19_Step ==
    StepBuildRead
    => /\ StepEdgeScope
       /\ StepEdgePaths
       /\ (last'.ret /\ LastLinked' /\ "dyndep" \in LetKeys(last'.stmt.lets))
            => LET e == Last(edges_')
               IN  e.dyndep_ =
                     DyndepNode(Evaluate(LetExpr(last'.stmt.lets, "dyndep"), scopes, Top.env_), e)

C19_EdgeLocals == [][C19_Step]_vars

\* After x = a, the statement with the lines y = $x and x = b was linked:
\* its output $x is b, its input $y is a.
C19_Witness ==
    /\ LastLinked /\ last.ret
    /\ Len(last.stmt.lets) = 2 /\ last.stmt.lets[1].key = "y"
    /\ Last(edges_).outputs_ = <<B>>
    /\ Last(edges_).inputs_ = <<A>>
    /\ LookupVariable(scopes, last.env, "x") = A

\* The statement with the lines x = a and dyndep = $x was linked where no x
\* is bound: it has no dyndep node.
C19_WitnessDyndep ==
    /\ LastLinked /\ last.ret
    /\ "dyndep" \in LetKeys(last.stmt.lets)
    /\ Last(edges_).dyndep_ = EmptyStr

\* A statement without indented lines was linked: its edge has the scope of
\* the parser.
C19_WitnessNoLocals ==
    /\ LastLinked /\ last.ret
    /\ last.stmt.lets = << >>
    /\ Last(edges_).env_ = last.env
    /\ Last(edges_).outputs_ = <<<<"99">>>>

\* The step handled a build statement that ends before its edge is created:
\* the lexer rejects it, it has no output, or it names no rule.
StepBuildRejected ==
    /\ last'.stmt.kind = "build"
    /\ \/ last'.stmt.bad # "none"
       \/ last'.stmt.outs = << >>
       \/ RuleScope(scopes, Top.env_, last'.stmt.rule) = NullEnv

\* C20: a build statement that is rejected for its form (no output, no ':',
\* no rule name or an unknown one, no end of line, a path or an indented
\* line the lexer rejects) leaves the edge list, the path table with the
\* edges of every node, the pool table and every scope there was exactly as
\* they were.
C20_Step ==
    StepBuildRejected
    => /\ edges_' = edges_
       /\ paths_' = paths_
       /\ pools_' = pools_
       /\ next_edge' = next_edge
       /\ last'.made = NoEdge
       /\ \A i \in 1..Len(scopes) : scopes'[i] = scopes[i]
       /\ (last'.stmt.bad \notin {"implicit_out", "implicit_in"})
            => ~last'.ret /\ Top'.pc = "fail"

C20_RejectedLeavesStore == [][C20_Step]_vars

\* After a statement that linked an edge, a statement was rejected at its
\* second indented line.
C20_Witness ==
    /\ LastBuild /\ ~last.ret
    /\ last.stmt.bad = "let" /\ last.stmt.lets # << >>
    /\ Len(edges_) = 1
    /\ Len(scopes) = 2

\* After a statement that linked an edge, a statement named an unknown rule.
C20_WitnessRule ==
    /\ LastBuild /\ ~last.ret
    /\ last.stmt.rule = "cat"
    /\ Len(edges_) = 1
    /\ err.msg = "unknown build rule"

====
